---- MODULE Spec2Model ----
(***************************************************************************)
(* Git-Wizard: the diff renderers (features/visualization.py, main.py,     *)
(* ui/console.py) and the code analyzers (features/analysis.py).           *)
(*                                                                         *)
(* A Python str is a sequence of one-character strings, so that split,     *)
(* splitlines, join, strip, startswith and `in` are computed and not       *)
(* assumed.  Indices into line lists are Python's (0-based); the element   *)
(* at Python index i of a sequence s is s[i + 1].                          *)
(***************************************************************************)
EXTENDS Integers, Sequences, FiniteSets, TLC

VARIABLES
    a_blob, b_blob,      \* the old and the new blob of the diffed file
    renderer,            \* which renderer ran last ("none" before any)
    old_lines, new_lines,\* the renderer's line lists
    opcodes,             \* SequenceMatcher.get_opcodes()
    rows                 \* the rows added to the table, in order

diffVars == <<a_blob, b_blob, renderer, old_lines, new_lines, opcodes, rows>>

VARIABLES
    repo_files,          \* repository.get_files(): the tracked paths, in order
    fs,                  \* what open(path).read() gives: a str or an error
    call,                \* the last CodeAnalyzer call and its argument
    outcome,             \* how it ended: [raised, value]
    printed,             \* what it printed, in order
    opened,              \* the paths it opened, in order
    code_fragments,      \* find_duplicates' dict, in insertion order
    command,             \* the words after the command name, None without a command
    ui,                  \* what the command printed through ConsoleUI, in order
    earlier,             \* the calls made before the last one, with their outcomes
    calls_left           \* how many more calls or commands the behaviour makes

anVars ==
    <<repo_files, fs, call, outcome, printed, opened, code_fragments, command, ui,
      earlier, calls_left>>

VARIABLES
    settings,            \* Settings.settings: the dict of the settings
    settings_file,       \* what ~/.gitwizard_settings.json holds
    current_theme,       \* Theme.current_theme
    program,             \* whose command loop runs: main.py or gitwizard.py
    at                   \* where the command loop is: not started, at the
                         \* prompt, ended, or left by an uncaught error

appVars == <<settings, settings_file, current_theme, program, at>>

vars == <<diffVars, anVars, appVars>>

(***************************************************************************)
(* Bounds                                                                  *)
(***************************************************************************)
\* most '\n'-separated segments in a blob
MaxBlobSegs == 3

\* most '\n'-separated segments in a file given to find_duplicates
MaxDupSegs == 3

\* most '\n'-separated segments in a file given to the analyzers
MaxAnSegs == 2

\* largest min_length given to find_duplicates
MaxMinLength == 3

\* the most calls one behaviour of SpecRepeat makes on its CodeAnalyzer
MaxCalls == 3

(***************************************************************************)
(* Strings                                                                 *)
(***************************************************************************)
NL == "\n"

\* Python's None, told apart from every str (no str holds this element)
None == <<"None">>

Last(s) == s[Len(s)]

Front(s) == SubSeq(s, 1, Len(s) - 1)

RECURSIVE Join(_, _)
\* sep.join(parts)
Join(sep, parts) ==
    IF parts = <<>> THEN <<>>
    ELSE IF Len(parts) = 1 THEN parts[1]
    ELSE parts[1] \o sep \o Join(sep, Tail(parts))

RECURSIVE Split(_, _)
\* s.split(c) for a one-character separator c: always at least one part
Split(s, c) ==
    IF \A k \in 1..Len(s) : s[k] # c THEN <<s>>
    ELSE LET k == CHOOSE k \in 1..Len(s) :
                      /\ s[k] = c
                      /\ \A m \in 1..(k - 1) : s[m] # c
         IN  <<SubSeq(s, 1, k - 1)>> \o Split(SubSeq(s, k + 1, Len(s)), c)

Min(x, y) == IF x < y THEN x ELSE y

Max(x, y) == IF x > y THEN x ELSE y

\* s[start:stop] for ints start, stop (Python index start is s[start + 1])
PySlice(s, start, stop) ==
    LET n == Len(s)
        lo == IF start < 0 THEN Max(n + start, 0) ELSE Min(start, n)
        hi == IF stop < 0 THEN Max(n + stop, 0) ELSE Min(stop, n)
    IN  IF lo >= hi THEN <<>> ELSE SubSeq(s, lo + 1, hi)

\* whether p occurs in s at Python index k
OccursAt(s, p, k) ==
    /\ k >= 0
    /\ k + Len(p) <= Len(s)
    /\ \A m \in 1..Len(p) : s[k + m] = p[m]

\* s.startswith(p)
StartsWith(s, p) == OccursAt(s, p, 0)

\* s.endswith(p)
EndsWith(s, p) == OccursAt(s, p, Len(s) - Len(p))

\* p in s
Contains(s, p) == \E k \in 0..Len(s) : OccursAt(s, p, k)

\* the one character U+000B (vertical tab)
VT == "\\v"

\* the ASCII characters str.strip() removes
Whitespace == {" ", "\n", "\t", "\r", "\f", VT}

RECURSIVE LStrip(_)
LStrip(s) ==
    IF s # <<>> /\ Head(s) \in Whitespace THEN LStrip(Tail(s)) ELSE s

RECURSIVE RStrip(_)
RStrip(s) ==
    IF s # <<>> /\ Last(s) \in Whitespace THEN RStrip(Front(s)) ELSE s

\* s.strip()
Strip(s) == RStrip(LStrip(s))

RECURSIVE SplitStr(_, _)
\* s.split(sep) for a non-empty str sep
SplitStr(s, sep) ==
    IF ~Contains(s, sep) THEN <<s>>
    ELSE LET k == CHOOSE k \in 0..Len(s) :
                      /\ OccursAt(s, sep, k)
                      /\ \A m \in 0..(k - 1) : ~OccursAt(s, sep, m)
         IN  <<SubSeq(s, 1, k)>>
             \o SplitStr(SubSeq(s, k + Len(sep) + 1, Len(s)), sep)

\* s.startswith((p1, p2, ...)) / any(s.startswith(p) for p in ps)
StartsWithAny(s, ps) == \E k \in 1..Len(ps) : StartsWith(s, ps[k])

\* any(p in s for p in ps)
ContainsAny(s, ps) == \E k \in 1..Len(ps) : Contains(s, ps[k])

\* len([x for x in seq if Test(x)])
Count(seq, Test(_)) == Len(SelectSeq(seq, Test))

(***************************************************************************)
(* re.search for the patterns of analyze_security: a pattern is a list of  *)
(* atoms, each a character class taken once, zero or more times (star)  *)
(* or one or more times (plus).                                            *)
(***************************************************************************)
\* a class [..] or, negated, [^..]
CharIn(c, cls) == IF cls.neg THEN c \notin cls.set ELSE c \in cls.set

Atom(set, neg, q) == [set |-> set, neg |-> neg, q |-> q]

\* the literal characters of a pattern
Lit(chars) == [k \in 1..Len(chars) |-> Atom({chars[k]}, FALSE, "1")]

\* .*
DotStar == <<Atom({NL}, TRUE, "*")>>

\* \s*
SpaceStar == <<Atom({" ", "\t", "\n", "\r", "\f", VT}, FALSE, "*")>>

\* ['"]
Quote == <<Atom({"'", "\""}, FALSE, "1")>>

\* [^'"]+
NoQuotePlus == <<Atom({"'", "\""}, TRUE, "+")>>

RECURSIVE MatchHere(_, _, _, _)
\* whether atoms k.. of the pattern match s from Python index pos
MatchHere(pat, k, s, pos) ==
    IF k > Len(pat) THEN TRUE
    ELSE LET a == pat[k]
             least == IF a.q = "*" THEN 0 ELSE 1
             most == IF a.q = "1" THEN 1 ELSE Len(s) - pos
         IN  \E n \in least..most :
                 /\ pos + n <= Len(s)
                 /\ \A m \in 1..n : CharIn(s[pos + m], a)
                 /\ MatchHere(pat, k + 1, s, pos + n)

\* re.search(pattern, line) is not None
Search(pat, s) == \E pos \in 0..Len(s) : MatchHere(pat, 1, s, pos)

\* s.splitlines(): as split('\n'), but a final line break opens no last line
Splitlines(s) ==
    LET parts == Split(s, NL)
    IN  IF Last(parts) = <<>> THEN Front(parts) ELSE parts

\* bytes.decode('utf-8', errors='replace'): an undecodable byte becomes U+FFFD
BadByte == "\\xff"

Replacement == "U+FFFD"

Decode(bytes) ==
    [k \in 1..Len(bytes) |-> IF bytes[k] = BadByte THEN Replacement ELSE bytes[k]]

(***************************************************************************)
(* difflib.SequenceMatcher(None, a, b), as the renderers use it: no junk   *)
(* function, and autojunk idle below 200 lines.                            *)
(***************************************************************************)
RECURSIVE RunLen(_, _, _, _, _, _)
\* j2len[j] after row i of find_longest_match: the length of the run of
\* equal lines that ends at a[i], b[j] and stays inside [alo..], [blo..]
RunLen(a, b, i, j, alo, blo) ==
    IF i < alo \/ j < blo THEN 0
    ELSE IF a[i + 1] # b[j + 1] THEN 0
    ELSE 1 + RunLen(a, b, i - 1, j - 1, alo, blo)

RECURSIVE ScanMatches_LastWins(_, _, _, _, _, _, _, _)
\* the two loops with best replaced on k >= bestsize: of equally long
\* runs the last one found is kept
ScanMatches_LastWins(a, b, alo, ahi, blo, bhi, pos, best) ==
    LET width == bhi - blo
        i == alo + (pos \div width)
        j == blo + (pos % width)
        k == RunLen(a, b, i, j, alo, blo)
    IN  IF width <= 0 \/ pos >= (ahi - alo) * width THEN best
        ELSE ScanMatches_LastWins(a, b, alo, ahi, blo, bhi, pos + 1,
                 IF k > 0 /\ k >= best[3] THEN <<i - k + 1, j - k + 1, k>>
                 ELSE best)

RECURSIVE ScanMatches(_, _, _, _, _, _, _, _)
\* the two loops of find_longest_match, rows i ascending and within a row
\* the indices j of b2j[a[i]] ascending; best is replaced on k > bestsize
ScanMatches(a, b, alo, ahi, blo, bhi, pos, best) ==
    LET width == bhi - blo
        i == alo + (pos \div width)
        j == blo + (pos % width)
        k == RunLen(a, b, i, j, alo, blo)
    IN  IF width <= 0 \/ pos >= (ahi - alo) * width THEN best
        ELSE ScanMatches(a, b, alo, ahi, blo, bhi, pos + 1,
                 IF k > best[3] THEN <<i - k + 1, j - k + 1, k>> ELSE best)

\* SequenceMatcher.find_longest_match(alo, ahi, blo, bhi)
FindLongestMatch(a, b, alo, ahi, blo, bhi) ==
    ScanMatches(a, b, alo, ahi, blo, bhi, 0, <<alo, blo, 0>>)

RECURSIVE MatchQueue(_, _, _, _, _, _)
\* the queue loop of get_matching_blocks: the blocks found in a[alo:ahi],
\* b[blo:bhi] and in the pieces left and right of each
MatchQueue(a, b, alo, ahi, blo, bhi) ==
    LET x == FindLongestMatch(a, b, alo, ahi, blo, bhi)
        i == x[1]
        j == x[2]
        k == x[3]
    IN  IF k = 0 THEN {}
        ELSE {x}
             \cup (IF alo < i /\ blo < j
                   THEN MatchQueue(a, b, alo, i, blo, j) ELSE {})
             \cup (IF i + k < ahi /\ j + k < bhi
                   THEN MatchQueue(a, b, i + k, ahi, j + k, bhi) ELSE {})

TripleLess(x, y) ==
    \/ x[1] < y[1]
    \/ x[1] = y[1] /\ x[2] < y[2]
    \/ x[1] = y[1] /\ x[2] = y[2] /\ x[3] < y[3]

RECURSIVE SortBlocks(_)
\* matching_blocks.sort()
SortBlocks(S) ==
    IF S = {} THEN <<>>
    ELSE LET m == CHOOSE m \in S : \A y \in S \ {m} : TripleLess(m, y)
         IN  <<m>> \o SortBlocks(S \ {m})

RECURSIVE Collapse(_, _, _)
\* the loop of get_matching_blocks that merges adjacent blocks
Collapse(blocks, cur, acc) ==
    IF blocks = <<>>
    THEN IF cur[3] # 0 THEN Append(acc, cur) ELSE acc
    ELSE LET n == Head(blocks)
         IN  IF cur[1] + cur[3] = n[1] /\ cur[2] + cur[3] = n[2]
             THEN Collapse(Tail(blocks), <<cur[1], cur[2], cur[3] + n[3]>>, acc)
             ELSE Collapse(Tail(blocks), n,
                           IF cur[3] # 0 THEN Append(acc, cur) ELSE acc)

\* get_matching_blocks without its closing sentinel
GetMatchingBlocks_NoSentinel(a, b) ==
    Collapse(SortBlocks(MatchQueue(a, b, 0, Len(a), 0, Len(b))), <<0, 0, 0>>, <<>>)

\* SequenceMatcher.get_matching_blocks(), the (la, lb, 0) sentinel last
GetMatchingBlocks(a, b) ==
    Append(Collapse(SortBlocks(MatchQueue(a, b, 0, Len(a), 0, Len(b))),
                    <<0, 0, 0>>, <<>>),
           <<Len(a), Len(b), 0>>)

\* the gap tags with 'delete' and 'insert' exchanged
GapTag_Swapped(i, ai, j, bj) ==
    IF i < ai /\ j < bj THEN "replace"
    ELSE IF i < ai THEN "insert"
    ELSE IF j < bj THEN "delete"
    ELSE ""

\* the tag get_opcodes gives the gap a[i:ai], b[j:bj] before a block
GapTag(i, ai, j, bj) ==
    IF i < ai /\ j < bj THEN "replace"
    ELSE IF i < ai THEN "delete"
    ELSE IF j < bj THEN "insert"
    ELSE ""

RECURSIVE OpcodeLoop_NoSizeTest(_, _, _, _)
\* the loop over the blocks when it adds an 'equal' opcode for a block of
\* size 0 as well
OpcodeLoop_NoSizeTest(blocks, i, j, answer) ==
    IF blocks = <<>> THEN answer
    ELSE LET ai == Head(blocks)[1]
             bj == Head(blocks)[2]
             size == Head(blocks)[3]
             tag == GapTag(i, ai, j, bj)
             gap == IF tag # ""
                    THEN <<[tag |-> tag, i1 |-> i, i2 |-> ai, j1 |-> j, j2 |-> bj]>>
                    ELSE <<>>
             eq == <<[tag |-> "equal", i1 |-> ai, i2 |-> ai + size,
                      j1 |-> bj, j2 |-> bj + size]>>
         IN  OpcodeLoop_NoSizeTest(Tail(blocks), ai + size, bj + size,
                                   answer \o gap \o eq)

RECURSIVE OpcodeLoop(_, _, _, _)
OpcodeLoop(blocks, i, j, answer) ==
    IF blocks = <<>> THEN answer
    ELSE LET ai == Head(blocks)[1]
             bj == Head(blocks)[2]
             size == Head(blocks)[3]
             tag == GapTag(i, ai, j, bj)
             gap == IF tag # ""
                    THEN <<[tag |-> tag, i1 |-> i, i2 |-> ai, j1 |-> j, j2 |-> bj]>>
                    ELSE <<>>
             eq == IF size # 0
                   THEN <<[tag |-> "equal", i1 |-> ai, i2 |-> ai + size,
                           j1 |-> bj, j2 |-> bj + size]>>
                   ELSE <<>>
         IN  OpcodeLoop(Tail(blocks), ai + size, bj + size, answer \o gap \o eq)

\* SequenceMatcher.get_opcodes()
GetOpcodes(a, b) == OpcodeLoop(GetMatchingBlocks(a, b), 0, 0, <<>>)

(***************************************************************************)
(* The rows a renderer adds to its table for one opcode.  A row keeps the  *)
(* tag of the branch that added it next to its two cells.                  *)
(***************************************************************************)
Row(tag, old, new) == [tag |-> tag, old |-> old, new |-> new]

\* zip(range(i1, i2), range(j1, j2)): as long as the shorter range
ZipLen(op) == Min(op.i2 - op.i1, op.j2 - op.j1)

\* the 'equal' branch without the offset (i - i1) on the new side
OpRows_NoOffset(op, old, new) ==
    IF op.tag = "equal"
    THEN [n \in 1..(op.i2 - op.i1) |-> Row("equal", old[op.i1 + n], new[op.j1 + 1])]
    ELSE IF op.tag = "delete"
    THEN [n \in 1..(op.i2 - op.i1) |-> Row("delete", old[op.i1 + n], <<>>)]
    ELSE IF op.tag = "insert"
    THEN [n \in 1..(op.j2 - op.j1) |-> Row("insert", <<>>, new[op.j1 + n])]
    ELSE IF op.tag = "replace"
    THEN [n \in 1..ZipLen(op) |->
             Row("replace", old[op.i1 + n], new[op.j1 + n])]
    ELSE <<>>

\* the four branches of the loop over the opcodes
OpRows(op, old, new) ==
    IF op.tag = "equal"
    THEN [n \in 1..(op.i2 - op.i1) |->
             Row("equal", old[op.i1 + n], new[op.j1 + n])]
    ELSE IF op.tag = "delete"
    THEN [n \in 1..(op.i2 - op.i1) |-> Row("delete", old[op.i1 + n], <<>>)]
    ELSE IF op.tag = "insert"
    THEN [n \in 1..(op.j2 - op.j1) |-> Row("insert", <<>>, new[op.j1 + n])]
    ELSE IF op.tag = "replace"
    THEN [n \in 1..ZipLen(op) |->
             Row("replace", old[op.i1 + n], new[op.j1 + n])]
    ELSE <<>>

RECURSIVE TableRows(_, _, _)
\* for tag, i1, i2, j1, j2 in matcher.get_opcodes(): ... table.add_row(...)
TableRows(ops, old, new) ==
    IF ops = <<>> THEN <<>>
    ELSE OpRows(Head(ops), old, new) \o TableRows(Tail(ops), old, new)

(***************************************************************************)
(* Inputs of the diff renderers                                            *)
(***************************************************************************)
BlobLineTexts == {<<>>, <<"a">>, <<BadByte>>}

RECURSIVE SegLists(_, _)
\* the lists of 1..n segments drawn from texts
SegLists(texts, n) ==
    IF n = 0 THEN {}
    ELSE {<<t>> : t \in texts}
         \cup {<<t>> \o s : t \in texts, s \in SegLists(texts, n - 1)}

BlobData == {Join(<<NL>>, segs) : segs \in SegLists(BlobLineTexts, MaxBlobSegs)}

Blobs == BlobData \cup {None}

\* diff.a_blob.data_stream.read().decode('utf-8', errors='replace')
\*     if diff.a_blob else ""
BlobContent(blob) == IF blob = None THEN <<>> ELSE Decode(blob)


(***************************************************************************)
(* CodeAnalyzer (features/analysis.py)                                     *)
(***************************************************************************)
\* what open(file, 'r', encoding='utf-8') / f.read() raise
ReadErrors == {<<"PermissionError">>, <<"UnicodeDecodeError">>}

FileNotFound == <<"FileNotFoundError">>

IsError(data) == data \in ReadErrors \cup {FileNotFound}

\* with open(file, 'r', encoding='utf-8') as f: content = f.read()
ReadFile(path) == IF path \in DOMAIN fs THEN fs[path] ELSE FileNotFound

CodeExtensions ==
    {<<".", "p", "y">>, <<".", "j", "s">>, <<".", "j", "a", "v", "a">>,
     <<".", "c", "p", "p">>, <<".", "c">>, <<".", "h">>}

IsCodeFile(path) == \E ext \in CodeExtensions : EndsWith(path, ext)

\* CodeAnalyzer._get_code_files
GetCodeFiles == SelectSeq(repo_files, IsCodeFile)

\* the locals of a call when the dict of find_duplicates is kept from the
\* call before
NewRun_KeptFragments ==
    [results |-> <<>>, fragments |-> code_fragments, printed |-> <<>>,
     opened |-> <<>>, raised |-> FALSE]

\* the locals of one call: the rows of `results`, the dict of
\* find_duplicates, the lines printed, the paths opened, and whether an
\* exception left the call
NewRun ==
    [results |-> <<>>, fragments |-> <<>>, printed |-> <<>>,
     opened |-> <<>>, raised |-> FALSE]

\* a read error that is caught and not reported
OnReadError_Silent(run, text, file, err) ==
    [run EXCEPT !.opened = Append(@, file)]

\* a read error that is not caught and leaves the call
OnReadError_Propagate(run, text, file, err) ==
    [run EXCEPT !.opened = Append(@, file), !.raised = TRUE]

\* except Exception as e: print(f"<text> {file}: {str(e)}")
OnReadError(run, text, file, err) ==
    [run EXCEPT !.opened = Append(@, file),
                !.printed = Append(@, [text |-> text, file |-> file,
                                       error |-> err])]

\* the texts of the two messages (Russian in the source)
AnalyzeErrorText == "error while analysing file"

ReadErrorText == "error while reading file"

\* ---- find_duplicates ----
\* the index of the key in the dict, 0 when it has none
KeyIndex(fragments, key) ==
    IF \E k \in 1..Len(fragments) : fragments[k].fragment = key
    THEN CHOOSE k \in 1..Len(fragments) : fragments[k].fragment = key
    ELSE 0

\* a new key put in front of the keys the dict already has
AddOccurrence_NewKeyFirst(fragments, key, occ) ==
    LET k == KeyIndex(fragments, key)
    IN  IF k = 0
        THEN <<[fragment |-> key, occurrences |-> <<occ>>]>> \o fragments
        ELSE [fragments EXCEPT ![k].occurrences = Append(@, occ)]

\* code_fragments[fragment].append((file, i + 1)) on a defaultdict(list)
AddOccurrence(fragments, key, occ) ==
    LET k == KeyIndex(fragments, key)
    IN  IF k = 0
        THEN Append(fragments, [fragment |-> key, occurrences |-> <<occ>>])
        ELSE [fragments EXCEPT ![k].occurrences = Append(@, occ)]

\* the window recorded under its 0-based index
RecordWindow_ZeroBased(fragments, file, lines, min_length, i) ==
    LET fragment == Join(<<NL>>, PySlice(lines, i, i + min_length))
    IN  IF Strip(fragment) # <<>>
        THEN AddOccurrence(fragments, fragment, <<file, i>>)
        ELSE fragments

\* the window recorded without the test of fragment.strip()
RecordWindow_KeepsBlank(fragments, file, lines, min_length, i) ==
    AddOccurrence(fragments, Join(<<NL>>, PySlice(lines, i, i + min_length)),
                  <<file, i + 1>>)

\* fragment = '\n'.join(lines[i:i + min_length])
\* if fragment.strip(): code_fragments[fragment].append((file, i + 1))
RecordWindow(fragments, file, lines, min_length, i) ==
    LET fragment == Join(<<NL>>, PySlice(lines, i, i + min_length))
    IN  IF Strip(fragment) # <<>>
        THEN AddOccurrence(fragments, fragment, <<file, i + 1>>)
        ELSE fragments

RECURSIVE WindowLoop_NoOverlap(_, _, _, _, _)
\* the windows of a file taken side by side, none overlapping the last
WindowLoop_NoOverlap(fragments, file, lines, min_length, i) ==
    IF i >= Len(lines) - min_length + 1 THEN fragments
    ELSE WindowLoop_NoOverlap(
             RecordWindow(fragments, file, lines, min_length, i),
             file, lines, min_length,
             i + (IF min_length > 0 THEN min_length ELSE 1))

RECURSIVE WindowLoop(_, _, _, _, _)
\* for i in range(len(lines) - min_length + 1), from index i on
WindowLoop(fragments, file, lines, min_length, i) ==
    IF i >= Len(lines) - min_length + 1 THEN fragments
    ELSE WindowLoop(RecordWindow(fragments, file, lines, min_length, i),
                    file, lines, min_length, i + 1)

RECURSIVE DuplicatesLoop(_, _, _, _)
\* for file in files: try: ... except Exception
DuplicatesLoop(files, k, min_length, run) ==
    IF k > Len(files) \/ run.raised THEN run
    ELSE LET file == files[k]
             content == ReadFile(file)
         IN  DuplicatesLoop(files, k + 1, min_length,
                 IF IsError(content)
                 THEN OnReadError(run, ReadErrorText, file, content)
                 ELSE [run EXCEPT
                          !.opened = Append(@, file),
                          !.fragments = WindowLoop(@, file, Split(content, NL),
                                                   min_length, 0)])

\* the groups kept when a dict entry needs more than two occurrences
DuplicateGroups_MoreThanTwo(fragments) ==
    SelectSeq(fragments, LAMBDA g : Len(g.occurrences) > 2)

\* for fragment, occurrences in code_fragments.items():
\*     if len(occurrences) > 1: results.append(...)
DuplicateGroups(fragments) ==
    SelectSeq(fragments, LAMBDA g : Len(g.occurrences) > 1)

\* find_duplicates over a given list of files
FindDuplicatesOver(files, min_length) ==
    LET run == DuplicatesLoop(files, 1, min_length, NewRun)
    IN  IF run.raised THEN run
        ELSE [run EXCEPT !.results = DuplicateGroups(run.fragments)]

\* ---- analyze_complexity ----
CommentPrefixes == <<<<"#">>, <<"/", "/">>, <<"/", "*">>, <<"*">>, <<"*", "/">>>>

FunctionKeywords ==
    <<<<"d", "e", "f", " ">>, <<"f", "u", "n", "c", "t", "i", "o", "n", " ">>,
      <<"p", "u", "b", "l", "i", "c", " ">>,
      <<"p", "r", "i", "v", "a", "t", "e", " ">>,
      <<"p", "r", "o", "t", "e", "c", "t", "e", "d", " ">>>>

BranchKeywords ==
    <<<<"i", "f", " ">>, <<"f", "o", "r", " ">>, <<"w", "h", "i", "l", "e", " ">>,
      <<"s", "w", "i", "t", "c", "h", " ">>, <<"c", "a", "s", "e", " ">>,
      <<"c", "a", "t", "c", "h", " ">>, <<"&", "&">>, <<"|", "|">>>>

IsCodeLine(l) == Strip(l) # <<>> /\ ~StartsWithAny(Strip(l), CommentPrefixes)

IsFunctionLine(l) == StartsWithAny(Strip(l), FunctionKeywords)

\* the branching test when comment lines are left out of the count
IsBranchLine_CodeOnly(l) == IsCodeLine(l) /\ ContainsAny(l, BranchKeywords)

IsBranchLine(l) == ContainsAny(l, BranchKeywords)

\* the row analyze_complexity appends for one file
ComplexityRow(file, content) ==
    LET lines == Split(content, NL)
    IN  [file |-> file,
         code_lines |-> Count(lines, IsCodeLine),
         functions |-> Count(lines, IsFunctionLine),
         complexity |-> Count(lines, IsBranchLine)]

\* ---- analyze_performance ----
LoopKeywords == <<<<"f", "o", "r", " ">>, <<"w", "h", "i", "l", "e", " ">>>>

NestingKeywords ==
    <<<<"i", "f", " ">>, <<"f", "o", "r", " ">>, <<"w", "h", "i", "l", "e", " ">>,
      <<"d", "e", "f", " ">>, <<"c", "l", "a", "s", "s", " ">>>>

ContinuationKeywords == <<<<"e", "l", "s", "e", ":">>, <<"e", "l", "i", "f", " ">>>>

DefKeyword == <<"d", "e", "f", " ">>

IsLoopLine(l) == StartsWithAny(Strip(l), LoopKeywords)

\* func_name = line.split('def ')[1].split('(')[0].strip()
FuncName(line) == Strip(Split(SplitStr(line, DefKeyword)[2], "(")[1])

\* if 'def ' in line: ...; if func_name in content: recursion += 1
IsRecursionHit(line, content) ==
    Contains(line, DefKeyword) /\ Contains(content, FuncName(line))

RECURSIVE NestingLoop_ContinuationResets(_, _, _, _)
\* the loop when 'else:' and 'elif ' lines reset the counter as well
NestingLoop_ContinuationResets(lines, k, current, most) ==
    IF k > Len(lines) THEN most
    ELSE LET t == Strip(lines[k])
         IN  IF StartsWithAny(t, NestingKeywords)
             THEN NestingLoop_ContinuationResets(lines, k + 1, current + 1,
                                                 Max(most, current + 1))
             ELSE IF t # <<>>
             THEN NestingLoop_ContinuationResets(lines, k + 1, 0, most)
             ELSE NestingLoop_ContinuationResets(lines, k + 1, current, most)

RECURSIVE NestingLoop(_, _, _, _)
\* the loop over the lines that keeps current_nesting and max_nesting
NestingLoop(lines, k, current, most) ==
    IF k > Len(lines) THEN most
    ELSE LET t == Strip(lines[k])
         IN  IF StartsWithAny(t, NestingKeywords)
             THEN NestingLoop(lines, k + 1, current + 1, Max(most, current + 1))
             ELSE IF t # <<>> /\ ~StartsWithAny(t, ContinuationKeywords)
             THEN NestingLoop(lines, k + 1, 0, most)
             ELSE NestingLoop(lines, k + 1, current, most)

\* the row analyze_performance appends for one file
PerformanceRow(file, content) ==
    LET lines == Split(content, NL)
    IN  [file |-> file,
         loops |-> Count(lines, IsLoopLine),
         recursion |-> Count(lines, LAMBDA l : IsRecursionHit(l, content)),
         max_nesting |-> NestingLoop(lines, 1, 0, 0)]

\* ---- analyze_security ----
\* .*['"]\s*\+\s*['"], the end of the four SQL patterns
SqlTail == DotStar \o Quote \o SpaceStar \o Lit(<<"+">>) \o SpaceStar \o Quote

\* \s*=\s*['"][^'"]+['"], the end of the three credential patterns
CredentialTail ==
    SpaceStar \o Lit(<<"=">>) \o SpaceStar \o Quote \o NoQuotePlus \o Quote

SqlInjection ==
    <<Lit(<<"S", "E", "L", "E", "C", "T">>) \o DotStar \o Lit(<<"F", "R", "O", "M">>)
          \o DotStar \o Lit(<<"W", "H", "E", "R", "E">>) \o DotStar \o Lit(<<"=">>)
          \o SqlTail,
      Lit(<<"I", "N", "S", "E", "R", "T">>) \o DotStar \o Lit(<<"I", "N", "T", "O">>)
          \o DotStar \o Lit(<<"V", "A", "L", "U", "E", "S">>)
          \o SqlTail,
      Lit(<<"U", "P", "D", "A", "T", "E">>) \o DotStar \o Lit(<<"S", "E", "T">>)
          \o DotStar \o Lit(<<"=">>)
          \o SqlTail,
      Lit(<<"D", "E", "L", "E", "T", "E">>) \o DotStar \o Lit(<<"F", "R", "O", "M">>)
          \o DotStar \o Lit(<<"W", "H", "E", "R", "E">>) \o DotStar \o Lit(<<"=">>)
          \o SqlTail>>

CommandInjection ==
    <<Lit(<<"o", "s", ".", "s", "y", "s", "t", "e", "m", "(">>),
      Lit(<<"s", "u", "b", "p", "r", "o", "c", "e", "s", "s",
            ".", "c", "a", "l", "l", "(">>),
      Lit(<<"e", "x", "e", "c", "(">>),
      Lit(<<"e", "v", "a", "l", "(">>)>>

PathTraversal ==
    <<Lit(<<".", ".", "/">>),
      Lit(<<".", ".", "\\">>),
      Lit(<<"%", "2", "e", "%", "2", "e", "%", "2", "f">>),
      Lit(<<"%", "2", "5", "2", "e", "%", "2", "5", "2", "e", "%", "2", "5", "2", "f">>)>>

HardcodedCredentials ==
    <<Lit(<<"p", "a", "s", "s", "w", "o", "r", "d">>) \o CredentialTail,
      Lit(<<"a", "p", "i", "_", "k", "e", "y">>) \o CredentialTail,
      Lit(<<"s", "e", "c", "r", "e", "t">>) \o CredentialTail>>

\* security_patterns, in the dict's order
SecurityPatterns ==
    <<[issue_type |-> "SQL Injection", patterns |-> SqlInjection],
      [issue_type |-> "Command Injection", patterns |-> CommandInjection],
      [issue_type |-> "Path Traversal", patterns |-> PathTraversal],
      [issue_type |-> "Hardcoded Credentials", patterns |-> HardcodedCredentials]>>

\* the loop over the patterns when it stops at the first match
PatternFindings_FirstMatchOnly(file, i, line, issue_type, patterns) ==
    IF \E k \in 1..Len(patterns) : Search(patterns[k], line)
    THEN <<[file |-> file, line |-> i, issue_type |-> issue_type,
            code |-> Strip(line)]>>
    ELSE <<>>

\* for pattern in patterns: if re.search(pattern, line): results.append(...)
PatternFindings(file, i, line, issue_type, patterns) ==
    [k \in 1..Len(SelectSeq(patterns, LAMBDA pat : Search(pat, line))) |->
        [file |-> file, line |-> i, issue_type |-> issue_type,
         code |-> Strip(line)]]

RECURSIVE CategoryLoop(_, _, _, _)
\* for issue_type, patterns in security_patterns.items()
CategoryLoop(file, i, line, c) ==
    IF c > Len(SecurityPatterns) THEN <<>>
    ELSE PatternFindings(file, i, line, SecurityPatterns[c].issue_type,
                         SecurityPatterns[c].patterns)
         \o CategoryLoop(file, i, line, c + 1)

RECURSIVE SecurityLineLoop_ZeroBased(_, _, _)
\* the loop over the lines when it numbers them from 0
SecurityLineLoop_ZeroBased(file, lines, i) ==
    IF i > Len(lines) THEN <<>>
    ELSE CategoryLoop(file, i - 1, lines[i], 1)
         \o SecurityLineLoop_ZeroBased(file, lines, i + 1)

RECURSIVE SecurityLineLoop(_, _, _)
\* for i, line in enumerate(lines, 1)
SecurityLineLoop(file, lines, i) ==
    IF i > Len(lines) THEN <<>>
    ELSE CategoryLoop(file, i, lines[i], 1) \o SecurityLineLoop(file, lines, i + 1)

\* the findings analyze_security appends for one file
SecurityFindings(file, content) == SecurityLineLoop(file, Split(content, NL), 1)

\* ---- the loop over the files, shared by the three analyzers ----
FileRows(op, file, content) ==
    IF op = "analyze_complexity" THEN <<ComplexityRow(file, content)>>
    ELSE IF op = "analyze_performance" THEN <<PerformanceRow(file, content)>>
    ELSE SecurityFindings(file, content)

RECURSIVE AnalyzeLoop(_, _, _, _)
\* for file in files: try: ... except Exception as e: print(...)
AnalyzeLoop(op, files, k, run) ==
    IF k > Len(files) \/ run.raised THEN run
    ELSE LET file == files[k]
             content == ReadFile(file)
         IN  AnalyzeLoop(op, files, k + 1,
                 IF IsError(content)
                 THEN OnReadError(run, AnalyzeErrorText, file, content)
                 ELSE [run EXCEPT !.opened = Append(@, file),
                                  !.results = @ \o FileRows(op, file, content)])

\* an analyzer over a given list of files
AnalyzeOver(op, files) == AnalyzeLoop(op, files, 1, NewRun)

\* files = [file_path] if file_path else self._get_code_files()
FilesFor(file_path) ==
    IF file_path # None /\ file_path # <<>> THEN <<file_path>> ELSE GetCodeFiles

(***************************************************************************)
(* Settings (core/settings.py): a dict is a function from its keys         *)
(***************************************************************************)
\* default_settings of load_settings, for the keys 'theme' and
\* 'default_branch'
DefaultSettings == [theme |-> "dark", default_branch |-> "main"]

\* the settings file: absent (os.path.exists is False), not parseable by
\* json.load, or holding a dict
NoFile == [state |-> "absent", data |-> DefaultSettings]

CorruptFile == [state |-> "corrupt", data |-> DefaultSettings]

DictFile(d) == [state |-> "dict", data |-> d]

\* default_settings.update(user_settings)
Update(d, u) ==
    [k \in DOMAIN d \cup DOMAIN u |-> IF k \in DOMAIN u THEN u[k] ELSE d[k]]

\* Settings.load_settings: the defaults, updated with the dict of the
\* settings file when there is one that can be parsed
LoadSettings(file) ==
    IF file.state = "dict" THEN Update(DefaultSettings, file.data)
    ELSE DefaultSettings

\* except Exception as e: print(...) of load_settings
LoadSettingsPrints(file) ==
    IF file.state = "corrupt"
    THEN <<[text |-> "could not load the settings", file |-> <<>>,
            error |-> <<"JSONDecodeError">>]>>
    ELSE <<>>

\* the state of Theme() and of the loop before run()
IdleApp ==
    /\ settings = DefaultSettings
    /\ settings_file = NoFile
    /\ current_theme = "dark"
    /\ program = "none"
    /\ at = "not started"

(***************************************************************************)
(* The repository and the calls                                            *)
(***************************************************************************)
PyPath == <<"m", ".", "p", "y">>

JsPath == <<"u", ".", "j", "s">>

MdPath == <<"n", ".", "m", "d">>

\* the last call joins the calls made before it, and one call less is left
Remember ==
    /\ earlier' = IF call.op = "none" THEN earlier
                  ELSE earlier \cup {[call |-> call, outcome |-> outcome]}
    /\ calls_left' = calls_left - 1

\* a call ends by returning `results` or by raising
Outcome(run) ==
    [raised |-> run.raised, value |-> IF run.raised THEN <<>> ELSE run.results]

Finish(op, arg, run) ==
    /\ call' = [op |-> op, arg |-> arg]
    /\ command' = None
    /\ ui' = <<>>
    /\ outcome' = Outcome(run)
    /\ printed' = run.printed
    /\ opened' = run.opened
    /\ code_fragments' = run.fragments
    /\ Remember
    /\ UNCHANGED <<repo_files, fs>>
    /\ UNCHANGED diffVars
    /\ UNCHANGED appVars

\* ---- the 'duplicates' command of main.py ----
Digits == <<"0", "1", "2", "3", "4", "5", "6", "7", "8", "9">>

\* s.isdigit()
IsDigit(s) ==
    /\ s # <<>>
    /\ \A k \in 1..Len(s) : \E d \in 1..Len(Digits) : Digits[d] = s[k]

DigitValue(c) == (CHOOSE d \in 1..Len(Digits) : Digits[d] = c) - 1

RECURSIVE PyInt(_)
\* int(s) for a str of digits
PyInt(s) ==
    IF s = <<>> THEN 0 ELSE 10 * PyInt(Front(s)) + DigitValue(Last(s))

\* find_duplicates(min_length: int = 5)
DefaultMinLength == 5

Ui(kind, body) == [kind |-> kind, body |-> body]

\* GitWizard.find_code_duplicates(min_length) of main.py
FindCodeDuplicates(args, min_length) ==
    LET run == FindDuplicatesOver(GetCodeFiles, min_length)
        results == Outcome(run).value
        shown == [k \in 1..Len(results) |-> Ui("duplicate", results[k])]
    IN  /\ call' = [op |-> "find_duplicates", arg |-> min_length]
        /\ outcome' = Outcome(run)
        /\ printed' = run.printed
        /\ opened' = run.opened
        /\ code_fragments' = run.fragments
        /\ command' = args
        /\ ui' = IF run.raised THEN <<Ui("error", "duplicates failed")>>
                 ELSE IF results # <<>>
                 THEN <<Ui("panel", "duplicates found")>> \o shown
                 ELSE <<Ui("success", "no duplicates")>>
        /\ Remember
        /\ UNCHANGED <<repo_files, fs>>
        /\ UNCHANGED diffVars
        /\ UNCHANGED appVars

\* elif cmd == "duplicates": ... of GitWizard.run
DuplicatesCommandOn(args) ==
    IF args # <<>> /\ IsDigit(args[1])
    THEN FindCodeDuplicates(args, PyInt(args[1]))
    ELSE IF args = <<>>
    THEN FindCodeDuplicates(args, DefaultMinLength)
    ELSE /\ command' = args
         /\ ui' = <<Ui("error", "bad argument"), Ui("info", "usage")>>
         /\ call' = [op |-> "none", arg |-> None]
         /\ Remember
         /\ UNCHANGED <<outcome, printed, opened, code_fragments>>
         /\ UNCHANGED <<repo_files, fs>>
         /\ UNCHANGED diffVars
         /\ UNCHANGED appVars

InitCalls ==
    /\ call = [op |-> "none", arg |-> None]
    /\ outcome = [raised |-> FALSE, value |-> <<>>]
    /\ printed = <<>>
    /\ opened = <<>>
    /\ code_fragments = <<>>
    /\ command = None
    /\ ui = <<>>
    /\ earlier = {}
    /\ calls_left = 1
    /\ IdleApp

IdleDiff ==
    /\ a_blob = None
    /\ b_blob = None
    /\ renderer = "none"
    /\ old_lines = <<>>
    /\ new_lines = <<>>
    /\ opcodes = <<>>
    /\ rows = <<>>

IdleAnalyzer ==
    /\ repo_files = <<>>
    /\ fs = <<>>
    /\ InitCalls

\* ---- the diff renderers ----
InitDiff ==
    /\ a_blob \in Blobs
    /\ b_blob \in Blobs
    /\ renderer = "none"
    /\ old_lines = <<>>
    /\ new_lines = <<>>
    /\ opcodes = <<>>
    /\ rows = <<>>
    /\ IdleAnalyzer

\* the body of the `for diff in diffs` loop for one diff
RenderDiff(who) ==
    LET old == Splitlines(BlobContent(a_blob))
        new == Splitlines(BlobContent(b_blob))
        ops == GetOpcodes(old, new)
    IN  /\ renderer = "none"
        /\ renderer' = who
        /\ old_lines' = old
        /\ new_lines' = new
        /\ opcodes' = ops
        /\ rows' = TableRows(ops, old, new)
        /\ UNCHANGED <<a_blob, b_blob>>
        /\ UNCHANGED anVars
        /\ UNCHANGED appVars

\* Visualizer.show_diff
VisualizerShowDiff == RenderDiff("Visualizer.show_diff")

\* GitWizard.show_diff of main.py
MainShowDiff == RenderDiff("GitWizard.show_diff")

\* ConsoleUI.print_diff(old_text, new_text), on the texts of the two blobs
\* ("" for a blob that is absent): it splits with split('\n')
ConsolePrintDiff ==
    LET old == Split(BlobContent(a_blob), NL)
        new == Split(BlobContent(b_blob), NL)
        ops == GetOpcodes(old, new)
    IN  /\ renderer = "none"
        /\ renderer' = "ConsoleUI.print_diff"
        /\ old_lines' = old
        /\ new_lines' = new
        /\ opcodes' = ops
        /\ rows' = TableRows(ops, old, new)
        /\ UNCHANGED <<a_blob, b_blob>>
        /\ UNCHANGED anVars
        /\ UNCHANGED appVars

NextDiff == VisualizerShowDiff \/ MainShowDiff \/ ConsolePrintDiff

SpecDiff == InitDiff /\ [][NextDiff]_vars

\* ---- Visualizer.show_diff as a whole: what it returns ----
\* a returned str: the list joined by "\n".join(diff_output), or the
\* message of the except clause
Str(error, parts) == [type |-> "str", error |-> error, parts |-> parts]

\* return ""
EmptyStr == Str(FALSE, <<>>)

\* an exception that leaves show_diff
ShowDiffOnError_Propagates(e) ==
    [raised |-> TRUE, value |-> Str(TRUE, <<"diff failed", e>>)]

\* except Exception as e: return f"Ошибка при получении diff: {str(e)}"
ShowDiffOnError(e) ==
    [raised |-> FALSE, value |-> Str(TRUE, <<"diff failed", e>>)]

\* what the collaborators of one call do: get_diff raises, returns no
\* diffs or returns one diff; the diff has both paths or not; reading a
\* blob that is present succeeds or raises
Collaborators ==
    [fetched : {"raises", "no diffs", "one diff"},
     paths : BOOLEAN,
     read : {"ok", "raises"}]

\* show_diff returns without a table built
ReturnUnrendered(how, result) ==
    /\ call' = [op |-> "Visualizer.show_diff", arg |-> how]
    /\ outcome' = result
    /\ UNCHANGED diffVars

\* Visualizer.show_diff(commit_hash, file_path), the repository giving
\* at most one diff, with the blobs a_blob and b_blob
ShowDiffCall ==
    \E how \in Collaborators :
        /\ call.op = "none"
        /\ renderer = "none"
        /\ how.read = "raises" =>
               how.fetched = "one diff" /\ how.paths
               /\ (a_blob # None \/ b_blob # None)
        /\ IF how.fetched = "raises"
           THEN ReturnUnrendered(how, ShowDiffOnError("GitCommandError"))
           ELSE IF how.fetched = "no diffs"
           THEN ReturnUnrendered(how, [raised |-> FALSE, value |-> EmptyStr])
           ELSE IF ~how.paths
           THEN ReturnUnrendered(how, [raised |-> FALSE, value |-> Str(FALSE, <<>>)])
           ELSE IF how.read = "raises"
           THEN ReturnUnrendered(how, ShowDiffOnError("OSError"))
           ELSE LET old == Splitlines(BlobContent(a_blob))
                    new == Splitlines(BlobContent(b_blob))
                    ops == GetOpcodes(old, new)
                IN  /\ call' = [op |-> "Visualizer.show_diff", arg |-> how]
                    /\ outcome' = [raised |-> FALSE,
                                   value |-> Str(FALSE, <<"file header", "table", "">>)]
                    /\ renderer' = "Visualizer.show_diff"
                    /\ old_lines' = old
                    /\ new_lines' = new
                    /\ opcodes' = ops
                    /\ rows' = TableRows(ops, old, new)
                    /\ UNCHANGED <<a_blob, b_blob>>
        /\ UNCHANGED <<repo_files, fs, printed, opened, code_fragments,
                       command, ui, earlier, calls_left>>
        /\ UNCHANGED appVars

NextShow == ShowDiffCall

SpecShow == InitDiff /\ [][NextShow]_vars

\* ---- the duplicate scanner's inputs ----
DupLineTexts == {<<>>, <<" ">>, <<"a">>}

DupContents == {Join(<<NL>>, segs) : segs \in SegLists(DupLineTexts, MaxDupSegs)}

MinLengths == (0 - 2)..MaxMinLength

InitDup ==
    /\ repo_files = <<PyPath, MdPath, JsPath>>
    /\ fs \in [{PyPath, MdPath, JsPath} ->
                  DupContents \cup {<<"PermissionError">>}]
    /\ fs[MdPath] = <<"a", "\n", "a">>
    /\ InitCalls
    /\ IdleDiff

\* CodeAnalyzer.find_duplicates(min_length)
FindDuplicates ==
    \E min_length \in MinLengths :
        /\ calls_left > 0
        /\ command = None
        /\ Finish("find_duplicates", min_length,
                  FindDuplicatesOver(GetCodeFiles, min_length))

\* the words typed after 'duplicates'
DuplicatesArgs == {<<>>, <<<<"0">>>>, <<<<"2">>>>, <<<<"-", "1">>>>}

DuplicatesCommand ==
    \E args \in DuplicatesArgs :
        /\ calls_left > 0
        /\ command = None
        /\ DuplicatesCommandOn(args)

NextDup == FindDuplicates \/ DuplicatesCommand

SpecDup == InitDup /\ [][NextDup]_vars

\* ---- the analyzers' inputs ----
AnLineTexts ==
    {<<>>,
     <<"d", "e", "f", " ", "f", "(", ")", ":">>,
     <<"f", "o", "r", " ", "x", ":">>,
     <<"e", "v", "a", "l", "(", "f", ")">>}

AnContents == {Join(<<NL>>, segs) : segs \in SegLists(AnLineTexts, MaxAnSegs)}

\* a path the repository does not list and the file system does not hold
MissingPath == <<"x", ".", "c">>

FilePaths == {None, <<>>, PyPath, MdPath, MissingPath}

InitAn ==
    /\ repo_files = <<PyPath, MdPath, JsPath>>
    /\ fs \in [{PyPath, MdPath, JsPath} -> AnContents \cup ReadErrors]
    /\ fs[MdPath] = <<"e", "v", "a", "l", "(", "f", ")">>
    /\ InitCalls
    /\ IdleDiff

Analyze(op) ==
    \E file_path \in FilePaths :
        /\ calls_left > 0
        /\ command = None
        /\ Finish(op, file_path, AnalyzeOver(op, FilesFor(file_path)))

\* CodeAnalyzer.analyze_complexity(file_path)
AnalyzeComplexity == Analyze("analyze_complexity")

\* CodeAnalyzer.analyze_performance(file_path)
AnalyzePerformance == Analyze("analyze_performance")

\* CodeAnalyzer.analyze_security(file_path)
AnalyzeSecurity == Analyze("analyze_security")

NextAn ==
    \/ AnalyzeComplexity
    \/ AnalyzePerformance
    \/ AnalyzeSecurity
    \/ FindDuplicates

SpecAn == InitAn /\ [][NextAn]_vars

\* ---- analyze_performance of gitwizard.py ----
PyExtension == <<".", "p", "y">>

\* if file_path: files = [file_path]
\* else: files = [f for f in self.repo.git.ls_files().split('\n')
\*                if f.endswith('.py')]
GitWizardFilesFor(file_path) ==
    IF file_path # None /\ file_path # <<>> THEN <<file_path>>
    ELSE SelectSeq(repo_files, LAMBDA f : EndsWith(f, PyExtension))

\* GitWizard.analyze_performance(file_path) of gitwizard.py: the rows of
\* its table are kept as the value of the call
GitWizardAnalyzePerformance ==
    \E file_path \in FilePaths :
        /\ calls_left > 0
        /\ command = None
        /\ Finish("GitWizard.analyze_performance", file_path,
                  AnalyzeOver("analyze_performance",
                              GitWizardFilesFor(file_path)))

NextScan ==
    \/ AnalyzeComplexity
    \/ AnalyzePerformance
    \/ AnalyzeSecurity
    \/ GitWizardAnalyzePerformance

SpecScan == InitAn /\ [][NextScan]_vars

\* ---- the settings ----
\* the most calls one behaviour of SpecSettings makes on its Settings
MaxSettingsCalls == 4

SettingsKeys == {"theme", "default_branch"}

SettingsValues(key) ==
    IF key = "theme" THEN {"dark", "light"} ELSE {"main", "dev"}

\* the dicts a user's settings file may hold: some of the keys, each with
\* one of its values
UserDicts ==
    UNION {{d \in [K -> {"dark", "light", "main", "dev"}] :
               \A k \in K : d[k] \in SettingsValues(k)} :
           K \in (SUBSET SettingsKeys) \ {{}}}

SettingsFiles == {NoFile, CorruptFile} \cup {DictFile(d) : d \in UserDicts}

\* Settings.__init__: self.settings = self.load_settings()
InitSettings ==
    /\ settings_file \in SettingsFiles
    /\ settings = LoadSettings(settings_file)
    /\ current_theme = "dark"
    /\ program = "none"
    /\ at = "not started"
    /\ repo_files = <<>>
    /\ fs = <<>>
    /\ call = [op |-> "none", arg |-> None]
    /\ outcome = [raised |-> FALSE, value |-> <<>>]
    /\ printed = <<>>
    /\ opened = <<>>
    /\ code_fragments = <<>>
    /\ command = None
    /\ ui = <<>>
    /\ earlier = {}
    /\ calls_left = MaxSettingsCalls
    /\ IdleDiff

\* what a call on Settings leaves alone, and how it ends
SettingsCall(op, arg, value, prints) ==
    /\ calls_left > 0
    /\ calls_left' = calls_left - 1
    /\ call' = [op |-> op, arg |-> arg]
    /\ outcome' = [raised |-> FALSE, value |-> value]
    /\ printed' = prints
    /\ UNCHANGED <<repo_files, fs, opened, code_fragments, command, ui, earlier>>
    /\ UNCHANGED <<current_theme, program, at>>
    /\ UNCHANGED diffVars

\* Settings.set(key, value)
SettingsSet ==
    \E key \in SettingsKeys :
        \E value \in SettingsValues(key) :
            /\ settings' = [settings EXCEPT ![key] = value]
            /\ UNCHANGED settings_file
            /\ SettingsCall("Settings.set", <<key, value>>, None, <<>>)

\* Settings.save_settings(): True when the file was written, False (and
\* a printed line) when open() failed
SettingsSave ==
    \E written \in BOOLEAN :
        /\ settings_file' = IF written THEN DictFile(settings) ELSE settings_file
        /\ UNCHANGED settings
        /\ SettingsCall("Settings.save_settings", None, written,
               IF written THEN <<>>
               ELSE <<[text |-> "error while saving the settings",
                       file |-> <<>>, error |-> <<"PermissionError">>]>>)

\* Settings.reset(): self.settings = self.load_settings()
SettingsReset ==
    /\ settings' = LoadSettings(settings_file)
    /\ UNCHANGED settings_file
    /\ SettingsCall("Settings.reset", None, None,
                    LoadSettingsPrints(settings_file))

NextSettings == SettingsSet \/ SettingsSave \/ SettingsReset

SpecSettings == InitSettings /\ [][NextSettings]_vars

\* ---- Theme (core/theme.py) ----
\* the most calls one behaviour of SpecTheme makes
MaxThemeCalls == 3

\* self.themes
Themes ==
    [light |-> [background |-> "white", foreground |-> "black",
                accent |-> "blue", success |-> "green",
                warning |-> "yellow", error |-> "red"],
     dark |-> [background |-> "black", foreground |-> "white",
               accent |-> "cyan", success |-> "green",
               warning |-> "yellow", error |-> "red"],
     monokai |-> [background |-> "#272822", foreground |-> "#f8f8f2",
                  accent |-> "#a6e22e", success |-> "#66d9ef",
                  warning |-> "#fd971f", error |-> "#f92672"],
     solarized |-> [background |-> "#002b36", foreground |-> "#93a1a1",
                    accent |-> "#268bd2", success |-> "#859900",
                    warning |-> "#b58900", error |-> "#dc322f"]]

\* d.get(key, default)
DictGet(d, key, default) == IF key \in DOMAIN d THEN d[key] ELSE default

\* Theme.get_theme(theme_name)
GetTheme(theme_name) == DictGet(Themes, theme_name, Themes["dark"])

\* Theme.get_color(color_type) when self.current_theme is current
GetColor(current, color_type) ==
    DictGet(GetTheme(current), color_type, GetTheme(current)["foreground"])

\* set_theme without the test of theme_name
SetTheme_Unchecked(current, theme_name) ==
    [current_theme |-> theme_name, returned |-> TRUE]

\* Theme.set_theme(theme_name) when self.current_theme is current
SetTheme(current, theme_name) ==
    IF theme_name \in DOMAIN Themes
    THEN [current_theme |-> theme_name, returned |-> TRUE]
    ELSE [current_theme |-> current, returned |-> FALSE]

\* the names and colour types the calls are made with
ThemeNames == DOMAIN Themes \cup {"neon", "Dark", ""}

ColorTypes == {"background", "foreground", "accent", "success", "warning",
               "error", "cyan", "magenta"}

InitTheme ==
    /\ repo_files = <<>>
    /\ fs = <<>>
    /\ call = [op |-> "none", arg |-> None]
    /\ outcome = [raised |-> FALSE, value |-> <<>>]
    /\ printed = <<>>
    /\ opened = <<>>
    /\ code_fragments = <<>>
    /\ command = None
    /\ ui = <<>>
    /\ earlier = {}
    /\ calls_left = MaxThemeCalls
    /\ IdleDiff
    /\ IdleApp

\* one call on the Theme object or one 'theme' command
ThemeCall(op, arg, value, theme, shown) ==
    /\ calls_left > 0
    /\ calls_left' = calls_left - 1
    /\ call' = [op |-> op, arg |-> arg]
    /\ outcome' = [raised |-> FALSE, value |-> value]
    /\ current_theme' = theme
    /\ ui' = shown
    /\ UNCHANGED <<repo_files, fs, printed, opened, code_fragments, command,
                   earlier>>
    /\ UNCHANGED <<settings, settings_file, program, at>>
    /\ UNCHANGED diffVars

\* Theme.set_theme(theme_name)
ThemeSetTheme ==
    \E theme_name \in ThemeNames :
        LET r == SetTheme(current_theme, theme_name)
        IN  ThemeCall("Theme.set_theme", theme_name, r.returned,
                      r.current_theme, <<>>)

\* Theme.get_color(color_type)
ThemeGetColor ==
    \E color_type \in ColorTypes :
        ThemeCall("Theme.get_color", color_type,
                  GetColor(current_theme, color_type), current_theme, <<>>)

\* elif cmd == "theme": of GitWizard.run in main.py
ThemeCommand ==
    \E args \in {<<>>} \cup {<<n>> : n \in ThemeNames \ {""}} :
        IF args = <<>>
        THEN ThemeCall("theme", args, "none", current_theme,
                       <<Ui("warning", "name a theme")>>)
        ELSE LET r == SetTheme(current_theme, args[1])
             IN  ThemeCall("theme", args, r.returned, r.current_theme,
                           IF r.returned
                           THEN <<Ui("success", "theme changed")>>
                           ELSE <<Ui("error", "unknown theme")>>)

NextTheme == ThemeSetTheme \/ ThemeGetColor \/ ThemeCommand

SpecTheme == InitTheme /\ [][NextTheme]_vars

\* ---- the command loops of main.py and gitwizard.py ----
\* the most prompts one behaviour of SpecLoop answers
MaxLoopSteps == 3

\* a command line, split: its first word and the words after it
Line(cmd, args) == [cmd |-> cmd, args |-> args]

ExitLine == Line("exit", <<>>)

HelpLine == Line("help", <<>>)

\* the prompt returned no line
NoLine == Line("(no line)", <<>>)

CommandLines ==
    {Line("", <<>>), ExitLine, HelpLine, Line("status", <<>>),
     Line("duplicates", <<>>), Line("duplicates", <<<<"a", "b", "c">>>>),
     Line("duplicates", <<<<"2">>>>), Line("security", <<>>),
     Line("bogus", <<>>)}

\* the commands of the if/elif chain of GitWizard.run in main.py
MainCommands ==
    {"status", "graph", "history", "commit-graph", "worktime", "lost-commits",
     "conflicts", "changes", "diff", "filesearch", "filetypes", "search",
     "stats", "complexity", "duplicates", "security", "performance", "docs",
     "export", "ci-cd", "theme", "settings", "ide"}

\* the commands of the if/elif chain of GitWizard.run in gitwizard.py
GwCommands ==
    {"help", "status", "graph", "history", "commit-graph", "worktime",
     "lost-commits", "conflicts", "changes", "diff", "filesearch", "filetypes",
     "search", "stats", "complexity", "duplicates", "dependencies", "export",
     "security", "docs", "performance", "ci-cd", "theme", "settings", "ide"}

\* int(s) does not raise ValueError: an optional sign, then digits
IsIntLiteral(s) ==
    IsDigit(IF s # <<>> /\ s[1] \in {"+", "-"} THEN Tail(s) ELSE s)

\* how one turn of a loop ends: where the loop is, what the loop's own
\* code printed, the handler it called, and the exception raised in the try
Turn(where, shown, dispatched, raised) ==
    [at |-> where, ui |-> shown, dispatched |-> dispatched, raised |-> raised]

\* self.ui.print_info("До свидания!")
Goodbye == Ui("info", "goodbye")

\* the except clauses of main.py when KeyboardInterrupt ends the loop too
MainExcept_InterruptBreaks(raised, dispatched) ==
    IF raised \in {"KeyboardInterrupt", "EOFError"}
    THEN Turn("ended", <<Goodbye>>, dispatched, raised)
    ELSE Turn("prompt", <<Ui("error", "an error occurred")>>, dispatched, raised)

\* except KeyboardInterrupt / except EOFError: break / except Exception of
\* main.py, and the print after the loop
MainExcept(raised, dispatched) ==
    IF raised = "KeyboardInterrupt"
    THEN Turn("prompt", <<Ui("info", "cancelled")>>, dispatched, raised)
    ELSE IF raised = "EOFError"
    THEN Turn("ended", <<Goodbye>>, dispatched, raised)
    ELSE Turn("prompt", <<Ui("error", "an error occurred")>>, dispatched, raised)

\* a handler called from the try block of main.py
MainHandler(name, reply) ==
    IF reply = "returns" THEN Turn("prompt", <<>>, name, "none")
    ELSE MainExcept(reply, name)

\* if command == "exit": if self.prompts.confirm(...): break / else: continue
MainConfirmExit(reply) ==
    IF reply = "yes" THEN Turn("ended", <<Goodbye>>, "none", "none")
    ELSE IF reply = "no" THEN Turn("prompt", <<>>, "none", "none")
    ELSE MainExcept(reply, "none")

\* the if/elif chain on cmd of main.py
MainDispatch(line, reply) ==
    IF line.cmd = "duplicates"
    THEN IF line.args = <<>> \/ IsDigit(line.args[1])
         THEN MainHandler("find_code_duplicates", reply)
         ELSE Turn("prompt", <<Ui("error", "bad argument"), Ui("info", "usage")>>,
                   "none", "none")
    ELSE IF line.cmd \in MainCommands THEN MainHandler(line.cmd, reply)
    ELSE Turn("prompt", <<Ui("error", "unknown command"), Ui("info", "type help")>>,
              "none", "none")

\* one turn of the while True loop of main.py on a line
MainIteration(line, reply) ==
    IF line.cmd = "" THEN Turn("prompt", <<>>, "none", "none")
    ELSE IF line = ExitLine THEN MainConfirmExit(reply)
    ELSE IF line = HelpLine THEN MainHandler("show_help", reply)
    ELSE MainDispatch(line, reply)

\* except KeyboardInterrupt: continue / except EOFError: break of
\* gitwizard.py; any other exception leaves run()
GwExcept(raised, dispatched) ==
    IF raised = "KeyboardInterrupt" THEN Turn("prompt", <<>>, dispatched, raised)
    ELSE IF raised = "EOFError" THEN Turn("ended", <<>>, dispatched, raised)
    ELSE Turn("crashed", <<>>, dispatched, raised)

GwHandler(name, reply) ==
    IF reply = "returns" THEN Turn("prompt", <<>>, name, "none")
    ELSE GwExcept(reply, name)

\* one turn of the while True loop of gitwizard.py on a line
GwIteration(line, reply) ==
    IF line = ExitLine
    THEN IF reply = "yes" THEN Turn("ended", <<>>, "none", "none")
         ELSE IF reply = "no" THEN Turn("prompt", <<>>, "none", "none")
         ELSE GwExcept(reply, "none")
    ELSE IF line.cmd = "duplicates"
    THEN IF line.args # <<>> /\ ~IsIntLiteral(line.args[1])
         THEN GwExcept("ValueError", "none")
         ELSE GwHandler("find_code_duplicates", reply)
    ELSE IF line.cmd \in GwCommands THEN GwHandler(line.cmd, reply)
    ELSE Turn("prompt", <<Ui("warning", "unknown command"),
                          Ui("plain", "type help")>>, "none", "none")

\* what the collaborators of a turn can do: Confirm.ask answers or raises,
\* a handler returns or raises
RepliesTo(p, line) ==
    IF line = ExitLine THEN {"yes", "no", "KeyboardInterrupt", "EOFError"}
    ELSE IF p = "main.py"
    THEN {"returns", "KeyboardInterrupt", "EOFError", "Exception"}
    ELSE {"returns", "KeyboardInterrupt", "EOFError"}

InitLoop ==
    /\ repo_files = <<>>
    /\ fs = <<>>
    /\ call = [op |-> "none", arg |-> None]
    /\ outcome = [raised |-> FALSE, value |-> <<>>]
    /\ printed = <<>>
    /\ opened = <<>>
    /\ code_fragments = <<>>
    /\ command = None
    /\ ui = <<>>
    /\ earlier = {}
    /\ calls_left = MaxLoopSteps
    /\ IdleDiff
    /\ IdleApp

\* GitWizard.run up to the loop
Run(p) ==
    /\ at = "not started"
    /\ at' = "prompt"
    /\ program' = p
    /\ UNCHANGED <<settings, settings_file, current_theme>>
    /\ UNCHANGED anVars
    /\ UNCHANGED diffVars

\* GitWizard.run of main.py
RunMain == Run("main.py")

\* GitWizard.run of gitwizard.py
RunGitWizard == Run("gitwizard.py")

\* the loop after one turn
EndTurn(turn, line, reply) ==
    /\ at = "prompt"
    /\ calls_left > 0
    /\ calls_left' = calls_left - 1
    /\ at' = turn.at
    /\ ui' = turn.ui
    /\ command' = line
    /\ call' = [op |-> "run",
                arg |-> [reply |-> reply, raised |-> turn.raised]]
    /\ outcome' = [raised |-> turn.at = "crashed", value |-> turn.dispatched]
    /\ UNCHANGED <<repo_files, fs, printed, opened, code_fragments, earlier>>
    /\ UNCHANGED <<settings, settings_file, current_theme, program>>
    /\ UNCHANGED diffVars

\* the prompt raises: Ctrl-C or end of input
PromptRaises ==
    \E raised \in {"KeyboardInterrupt", "EOFError"} :
        EndTurn(IF program = "main.py" THEN MainExcept(raised, "none")
                ELSE GwExcept(raised, "none"), NoLine, "none")

\* the prompt returns a line
EnterCommand ==
    \E line \in CommandLines :
        \E reply \in RepliesTo(program, line) :
            EndTurn(IF program = "main.py" THEN MainIteration(line, reply)
                    ELSE GwIteration(line, reply), line, reply)

NextLoop == RunMain \/ RunGitWizard \/ PromptRaises \/ EnterCommand

SpecLoop == InitLoop /\ [][NextLoop]_vars

\* ---- one file, for the rows and findings of the analyzers ----
\* the most lines a file of SpecFile holds
MaxFileSegs == 3

\* the line # if x
CommentLine ==
    <<"#", " ", "i", "f", " ", "x">>

\* the line def foo():
DefLine ==
    <<"d", "e", "f", " ", "f", "o", "o", "(", ")", ":">>

\* the line  if x:
IfLine ==
    <<" ", "i", "f", " ", "x", ":">>

\* the line else:
ElseLine ==
    <<"e", "l", "s", "e", ":">>

\* the line foo()
CallLine ==
    <<"f", "o", "o", "(", ")">>

\* the line password = "hunter2"
PasswordLine ==
    <<"p", "a", "s", "s", "w", "o", "r", "d", " ", "=", " ", "\"",
      "h", "u", "n", "t", "e", "r", "2", "\"">>

\* the line SELECT * FROM users
SelectLine ==
    <<"S", "E", "L", "E", "C", "T", " ", "*", " ", "F", "R", "O",
      "M", " ", "u", "s", "e", "r", "s">>

\* the line exec(eval("../"))
ExecLine ==
    <<"e", "x", "e", "c", "(", "e", "v", "a", "l", "(", "\"", ".",
      ".", "/", "\"", ")", ")">>

FileLineTexts ==
    {<<>>, CommentLine, DefLine, IfLine, ElseLine, CallLine,
     PasswordLine, SelectLine, ExecLine}

FileContents ==
    {Join(<<NL>>, segs) : segs \in SegLists(FileLineTexts, MaxFileSegs)}

InitFile ==
    /\ repo_files = <<PyPath>>
    /\ fs \in [{PyPath} -> FileContents]
    /\ InitCalls
    /\ IdleDiff

NextFile ==
    \/ AnalyzeComplexity
    \/ AnalyzePerformance
    \/ AnalyzeSecurity

SpecFile == InitFile /\ [][NextFile]_vars

\* ---- the 'security' command of main.py ----
\* GitWizard.analyze_security(file_path) of main.py: the name defaultdict
\* is not bound in main.py, so the statement after the panel raises
\* NameError, which the method's own except Exception reports
SecurityCommandOn(args) ==
    LET file_path == IF args # <<>> THEN args[1] ELSE None
        run == AnalyzeOver("analyze_security", FilesFor(file_path))
        results == Outcome(run).value
    IN  /\ call' = [op |-> "security", arg |-> file_path]
        /\ outcome' = Outcome(run)
        /\ printed' = run.printed
        /\ opened' = run.opened
        /\ code_fragments' = run.fragments
        /\ command' = args
        /\ ui' = IF run.raised
                 THEN <<Ui("error", "security analysis failed")>>
                 ELSE IF results # <<>>
                 THEN <<Ui("panel", "security problems found"),
                        Ui("error", "security analysis failed")>>
                 ELSE <<Ui("success", "no security problems")>>
        /\ Remember
        /\ UNCHANGED <<repo_files, fs>>
        /\ UNCHANGED diffVars
        /\ UNCHANGED appVars

\* elif cmd == "security": file = args[0] if args else None
SecurityCommand ==
    \E args \in {<<>>, <<PyPath>>} :
        /\ calls_left > 0
        /\ command = None
        /\ SecurityCommandOn(args)

NextSecurity == SecurityCommand \/ AnalyzeSecurity

SpecSecurity == InitFile /\ [][NextSecurity]_vars

\* ---- several calls on one CodeAnalyzer ----
RepeatContents ==
    {Join(<<NL>>, <<DefLine, DefLine>>), ExecLine, <<"PermissionError">>}

InitRepeat ==
    /\ repo_files = <<PyPath, JsPath>>
    /\ fs \in [{PyPath, JsPath} -> RepeatContents]
    /\ fs[JsPath] = Join(<<NL>>, <<DefLine, DefLine>>)
    /\ call = [op |-> "none", arg |-> None]
    /\ outcome = [raised |-> FALSE, value |-> <<>>]
    /\ printed = <<>>
    /\ opened = <<>>
    /\ code_fragments = <<>>
    /\ command = None
    /\ ui = <<>>
    /\ earlier = {}
    /\ calls_left = MaxCalls
    /\ IdleDiff
    /\ IdleApp

NextRepeat ==
    \/ FindDuplicates
    \/ AnalyzeComplexity
    \/ AnalyzePerformance
    \/ AnalyzeSecurity

SpecRepeat == InitRepeat /\ [][NextRepeat]_vars

(***************************************************************************)
(* Properties of the diff renderers                                        *)
(***************************************************************************)
Rendered == renderer # "none"

\* the cells of one side of the rows, the empty cell of the other side's
\* 'insert' or 'delete' rows left out
OldSide(rs) == [k \in 1..Len(SelectSeq(rs, LAMBDA r : r.tag # "insert")) |->
                   SelectSeq(rs, LAMBDA r : r.tag # "insert")[k].old]

NewSide(rs) == [k \in 1..Len(SelectSeq(rs, LAMBDA r : r.tag # "delete")) |->
                   SelectSeq(rs, LAMBDA r : r.tag # "delete")[k].new]

\* C1: the old sides of the rows, in order, are the old lines and the new
\* sides are the new lines (a replace span of unequal lengths included).
C1_RowsReproduceInputs ==
    Rendered => OldSide(rows) = old_lines /\ NewSide(rows) = new_lines

\* C2: the opcodes' old ranges [i1, i2) are contiguous, increasing and
\* cover 0..len(old) exactly once, and the new ranges [j1, j2) do the same
\* for 0..len(new).
C2_OpcodesPartition ==
    Rendered =>
        LET n == Len(opcodes)
        IN  /\ n = 0 => old_lines = <<>> /\ new_lines = <<>>
            /\ n > 0 => /\ opcodes[1].i1 = 0
                        /\ opcodes[1].j1 = 0
                        /\ opcodes[n].i2 = Len(old_lines)
                        /\ opcodes[n].j2 = Len(new_lines)
            /\ \A k \in 1..n : /\ opcodes[k].i1 <= opcodes[k].i2
                               /\ opcodes[k].j1 <= opcodes[k].j2
            /\ \A k \in 1..(n - 1) : /\ opcodes[k].i2 = opcodes[k + 1].i1
                                     /\ opcodes[k].j2 = opcodes[k + 1].j1
            /\ \A p \in 0..(Len(old_lines) - 1) :
                   Cardinality({k \in 1..n :
                       opcodes[k].i1 <= p /\ p < opcodes[k].i2}) = 1
            /\ \A q \in 0..(Len(new_lines) - 1) :
                   Cardinality({k \in 1..n :
                       opcodes[k].j1 <= q /\ q < opcodes[k].j2}) = 1

C2_Witness ==
    /\ Rendered
    /\ Len(opcodes) >= 3
    /\ \E k \in 1..Len(opcodes) : opcodes[k].tag = "replace"
    /\ \E k \in 1..Len(opcodes) : opcodes[k].tag = "equal"

OneEqualBlock ==
    /\ Len(opcodes) = 1
    /\ opcodes[1] = [tag |-> "equal", i1 |-> 0, i2 |-> Len(old_lines),
                     j1 |-> 0, j2 |-> Len(old_lines)]
    /\ rows = [k \in 1..Len(old_lines) |->
                  Row("equal", old_lines[k], old_lines[k])]

\* C3 as stated: for every line sequence A, diff(A, A) is one 'equal'
\* opcode over 0..len(A) on both sides, and every row pairs A[i] with A[i].
C3_Original == Rendered /\ old_lines = new_lines => OneEqualBlock

\* C3, amended: for every non-empty A, diff(A, A) is one 'equal' opcode
\* over 0..len(A) on both sides and every row pairs A[i] with A[i]; for
\* the empty A there is no opcode and no row.
C3_IdenticalInputs ==
    Rendered /\ old_lines = new_lines =>
        IF old_lines = <<>> THEN opcodes = <<>> /\ rows = <<>>
        ELSE OneEqualBlock

C3_Witness ==
    /\ Rendered
    /\ old_lines = new_lines
    /\ Len(old_lines) >= 2
    /\ old_lines[1] # old_lines[2]

OneBlock(tag) ==
    /\ Len(opcodes) = 1
    /\ opcodes[1] = [tag |-> tag, i1 |-> 0, i2 |-> Len(old_lines),
                     j1 |-> 0, j2 |-> Len(new_lines)]

\* C4 as stated: diff([], B) is exactly one 'insert' opcode covering B
\* for every B, and diff(A, []) exactly one 'delete' opcode covering A for
\* every A.
C4_Original ==
    /\ Rendered /\ old_lines = <<>> => OneBlock("insert")
    /\ Rendered /\ new_lines = <<>> => OneBlock("delete")

\* C4, amended: diff([], B) is exactly one 'insert' opcode covering B for
\* every non-empty B, diff(A, []) exactly one 'delete' opcode covering A
\* for every non-empty A, and diff([], []) has no opcode.
C4_EmptySide ==
    /\ Rendered /\ old_lines = <<>> /\ new_lines # <<>> => OneBlock("insert")
    /\ Rendered /\ new_lines = <<>> /\ old_lines # <<>> => OneBlock("delete")
    /\ Rendered /\ old_lines = <<>> /\ new_lines = <<>> => opcodes = <<>>

C4_Witness ==
    /\ Rendered
    /\ old_lines = <<>>
    /\ Len(new_lines) >= 2
    /\ opcodes[1].tag = "insert"

(***************************************************************************)
(* Properties of find_duplicates                                           *)
(***************************************************************************)
Scanned == call.op = "find_duplicates"

\* the code files the call could read, in listing order
ReadableCodeFiles == SelectSeq(GetCodeFiles, LAMBDA f : ~IsError(ReadFile(f)))

FileLines(f) == Split(ReadFile(f), NL)

\* C5: a min_length below 1 is rejected before any file is scanned, with
\* no groups, and the 'duplicates' command passes no such value.
C5_InvalidMinLengthRejected ==
    /\ Scanned /\ call.arg < 1 => opened = <<>> /\ outcome.value = <<>>
    /\ Scanned /\ command # None => call.arg >= 1

\* the start indices of the windows of n >= 1 consecutive lines of file f
WindowStarts(f, n) == 0..(Len(FileLines(f)) - n)

WindowText(f, n, i) == Join(<<NL>>, SubSeq(FileLines(f), i + 1, i + n))

\* the places <<k, i>> (k-th readable code file, start index i) of a text
Places(text, n) ==
    {p \in (1..Len(ReadableCodeFiles)) \X (0..MaxDupSegs) :
        /\ p[2] \in WindowStarts(ReadableCodeFiles[p[1]], n)
        /\ WindowText(ReadableCodeFiles[p[1]], n, p[2]) = text}

RECURSIVE InScanOrder(_)
\* places as (file, start line) pairs, files in listing order and start
\* lines ascending within a file
InScanOrder(P) ==
    IF P = {} THEN <<>>
    ELSE LET m == CHOOSE m \in P : \A y \in P \ {m} : TripleLess(<<m[1], m[2], 0>>,
                                                              <<y[1], y[2], 0>>)
         IN  <<<<ReadableCodeFiles[m[1]], m[2] + 1>>>> \o InScanOrder(P \ {m})

\* the texts of all windows of n lines
WindowTexts(n) ==
    UNION {{WindowText(ReadableCodeFiles[k], n, i) :
               i \in WindowStarts(ReadableCodeFiles[k], n)} :
           k \in 1..Len(ReadableCodeFiles)}

GroupsOf(text) ==
    {k \in 1..Len(outcome.value) : outcome.value[k].fragment = text}

OneGroupWithAllPlaces(text, n) ==
    /\ Cardinality(GroupsOf(text)) = 1
    /\ \A k \in GroupsOf(text) :
           outcome.value[k].occurrences = InScanOrder(Places(text, n))

\* C6 as stated: every text that is a window of min_length lines at two
\* or more places has exactly one group, listing exactly those places as
\* (file, 1-based start line) in scan order.
C6_Original ==
    Scanned /\ call.arg >= 1 =>
        \A text \in WindowTexts(call.arg) :
            Cardinality(Places(text, call.arg)) >= 2 =>
                OneGroupWithAllPlaces(text, call.arg)

\* C6, amended: every text that is not empty or whitespace-only after
\* trimming and is a window of min_length >= 1 lines at two or more places
\* has exactly one group, listing exactly those places as (file, 1-based
\* start line) in scan order.
C6_GroupPerRepeatedText ==
    Scanned /\ call.arg >= 1 =>
        \A text \in WindowTexts(call.arg) :
            Strip(text) # <<>> /\ Cardinality(Places(text, call.arg)) >= 2 =>
                OneGroupWithAllPlaces(text, call.arg)

C6_Witness ==
    /\ Scanned
    /\ call.arg = 2
    /\ \E k \in 1..Len(outcome.value) :
           /\ Len(outcome.value[k].occurrences) = 3
           /\ outcome.value[k].occurrences[1][1] = PyPath
           /\ outcome.value[k].occurrences[2] = <<PyPath, 2>>
           /\ outcome.value[k].occurrences[3][1] = JsPath

\* the number of lines of a text: a final line break ends the last line
LineCount(content) == Len(Splitlines(content))

\* C7: the result is empty whenever min_length exceeds the line count of
\* every file, files ending with a newline and identical files included.
C7_EmptyAboveEveryLineCount ==
    Scanned /\ (\A k \in 1..Len(ReadableCodeFiles) :
                   call.arg > LineCount(ReadFile(ReadableCodeFiles[k])))
        => outcome.value = <<>>

\* C8: every returned group has at least two occurrences, and every
\* fragment recorded with two or more occurrences is returned.
C8_GroupsAreTheRepeatedFragments ==
    Scanned =>
        /\ \A k \in 1..Len(outcome.value) :
               Len(outcome.value[k].occurrences) >= 2
        /\ \A k \in 1..Len(code_fragments) :
               Len(code_fragments[k].occurrences) >= 2 =>
                   \E m \in 1..Len(outcome.value) :
                       outcome.value[m] = code_fragments[k]

C8_Witness ==
    /\ Scanned
    /\ \E k \in 1..Len(code_fragments) : Len(code_fragments[k].occurrences) = 1
    /\ \E k \in 1..Len(code_fragments) : Len(code_fragments[k].occurrences) = 2
    /\ Len(code_fragments) >= 3
    /\ Len(outcome.value) = 1

(***************************************************************************)
(* Properties of the four operations on files that cannot be read          *)
(***************************************************************************)
Called == call.op # "none"

\* the files the call scans, in order
ScannedFiles ==
    IF call.op = "find_duplicates" THEN GetCodeFiles ELSE FilesFor(call.arg)

Failing(f) == IsError(ReadFile(f))

FailingFiles == SelectSeq(ScannedFiles, Failing)

ReadableFiles == SelectSeq(ScannedFiles, LAMBDA f : ~Failing(f))

\* the same call on the given files
SameCallOver(files) ==
    IF call.op = "find_duplicates" THEN FindDuplicatesOver(files, call.arg)
    ELSE AnalyzeOver(call.op, files)

\* the files a returned row speaks of
RowFiles(row) ==
    IF call.op = "find_duplicates"
    THEN {row.occurrences[k][1] : k \in 1..Len(row.occurrences)}
    ELSE {row.file}

\* C9: with files that cannot be read or decoded in the scanned set, each
\* of the four operations returns normally, no returned row speaks of a
\* failing file, and the result is that of the same call on the set
\* without the failing files.
C9_FailingFilesAreSkipped ==
    Called =>
        /\ ~outcome.raised
        /\ \A k \in 1..Len(outcome.value) :
               \A f \in RowFiles(outcome.value[k]) : ~Failing(f)
        /\ outcome.value = Outcome(SameCallOver(ReadableFiles)).value

C9_WitnessFor(op) ==
    /\ call.op = op
    /\ Len(ScannedFiles) = 2
    /\ Failing(ScannedFiles[1])
    /\ ~Failing(ScannedFiles[2])
    /\ outcome.value # <<>>

C9_Witness ==
    /\ \/ C9_WitnessFor("analyze_complexity")
       \/ C9_WitnessFor("analyze_performance")
       \/ C9_WitnessFor("analyze_security")
    /\ Failing(PyPath)
    /\ outcome.value[1].file = JsPath

\* an entry (file, error) in the returned value
IsErrorEntry(e, f) ==
    /\ "error" \in DOMAIN e
    /\ "file" \in DOMAIN e
    /\ e.file = f

\* C10 as stated: the returned value holds, next to the results, an entry
\* (file, error) for each file that failed.
C10_Original ==
    Called =>
        \A k \in 1..Len(FailingFiles) :
            \E m \in 1..Len(outcome.value) :
                IsErrorEntry(outcome.value[m], FailingFiles[k])

\* C10, amended: for each file that failed the run prints one line naming
\* the file and its error, in scan order; the returned value holds the
\* successful results only, and no entry for a file that failed.
C10_ErrorsArePrinted ==
    Called =>
        /\ printed = [k \in 1..Len(FailingFiles) |->
                         [text |-> IF call.op = "find_duplicates"
                                   THEN ReadErrorText ELSE AnalyzeErrorText,
                          file |-> FailingFiles[k],
                          error |-> ReadFile(FailingFiles[k])]]
        /\ \A m \in 1..Len(outcome.value) :
               /\ "error" \notin DOMAIN outcome.value[m]
               /\ \A f \in RowFiles(outcome.value[m]) : ~Failing(f)

C10_Witness ==
    /\ call.op = "analyze_security"
    /\ Len(printed) = 1
    /\ printed[1].file = PyPath
    /\ printed[1].error = <<"UnicodeDecodeError">>
    /\ outcome.value # <<>>

(***************************************************************************)
(* Properties of the rows and findings of the analyzers                    *)
(***************************************************************************)
\* the lines of a file the analyzers could read
LinesOf(f) == Splitlines(ReadFile(f))

\* the number of places of content where the text p stands
OccurrenceCount(content, p) ==
    Cardinality({k \in 0..(Len(content) - Len(p)) : OccursAt(content, p, k)})

\* the lines that define a function whose name stands at a second place of
\* the file
DefLinesWithReappearingName(f) ==
    {n \in 1..Len(LinesOf(f)) :
        /\ Contains(LinesOf(f)[n], DefKeyword)
        /\ OccurrenceCount(ReadFile(f), FuncName(LinesOf(f)[n])) > 1}

\* C11: the recursion count of a file's row is the number of lines that
\* define a function (contain 'def ') whose name reappears in the file
\* besides the defining occurrence; a function named only in its own
\* definition line adds nothing.
C11_RecursionOnlyWhenNameReappears ==
    call.op = "analyze_performance" =>
        \A k \in 1..Len(outcome.value) :
            outcome.value[k].recursion =
                Cardinality(DefLinesWithReappearingName(outcome.value[k].file))

\* the files of the call that could be read, in scan order
ReadableScanned == SelectSeq(FilesFor(call.arg), LAMBDA f : ~IsError(ReadFile(f)))

\* the elements of a list of keywords
Elements(seq) == {seq[k] : k \in 1..Len(seq)}

\* the lines of f that are not blank and do not start, once trimmed, with
\* a comment prefix
CodeLinesOf(f) ==
    {n \in 1..Len(LinesOf(f)) :
        /\ Strip(LinesOf(f)[n]) # <<>>
        /\ \A p \in Elements(CommentPrefixes) :
               ~StartsWith(Strip(LinesOf(f)[n]), p)}

\* the lines of f that start, once trimmed, with a function keyword
FunctionLinesOf(f) ==
    {n \in 1..Len(LinesOf(f)) :
        \E p \in Elements(FunctionKeywords) :
            StartsWith(Strip(LinesOf(f)[n]), p)}

\* the lines of f, comments included, that hold a branching keyword
BranchLinesOf(f) ==
    {n \in 1..Len(LinesOf(f)) :
        \E p \in Elements(BranchKeywords) : Contains(LinesOf(f)[n], p)}

\* C13: analyze_complexity returns one row for each readable file, in scan
\* order, with code_lines the number of non-blank lines that are not
\* comments, functions the number of lines starting with a function
\* keyword, and complexity the number of lines (comments included, each
\* once) that hold a branching keyword.
C13_ComplexityRow ==
    call.op = "analyze_complexity" =>
        /\ Len(outcome.value) = Len(ReadableScanned)
        /\ \A k \in 1..Len(outcome.value) :
               LET row == outcome.value[k]
               IN  /\ row.file = ReadableScanned[k]
                   /\ row.code_lines = Cardinality(CodeLinesOf(row.file))
                   /\ row.functions = Cardinality(FunctionLinesOf(row.file))
                   /\ row.complexity = Cardinality(BranchLinesOf(row.file))

\* a file of 3 code lines, one of them 'def foo():', and no branching
\* keyword has the row (3, 1, 0)
C13_Witness ==
    /\ call.op = "analyze_complexity"
    /\ Len(outcome.value) = 1
    /\ DefLine \in Elements(LinesOf(PyPath))
    /\ outcome.value[1].code_lines = 3
    /\ outcome.value[1].functions = 1
    /\ outcome.value[1].complexity = 0

\* the findings of the returned value for a file, a line and a category
FindingsAt(f, n, issue_type) ==
    {k \in 1..Len(outcome.value) :
        /\ outcome.value[k].file = f
        /\ outcome.value[k].line = n
        /\ outcome.value[k].issue_type = issue_type}

\* the patterns of a category that match a line
MatchingPatterns(c, line) ==
    {p \in 1..Len(SecurityPatterns[c].patterns) :
        Search(SecurityPatterns[c].patterns[p], line)}

\* C14: analyze_security returns one finding for each (file, line,
\* category, pattern) whose pattern matches the line, and nothing else: for
\* every line and category there are as many findings as matching patterns
\* of the category, and every finding is on a line of a scanned file.
C14_OneFindingPerMatch ==
    call.op = "analyze_security" =>
        /\ \A k \in 1..Len(ReadableScanned) :
               \A n \in 1..Len(LinesOf(ReadableScanned[k])) :
                   \A c \in 1..Len(SecurityPatterns) :
                       Cardinality(FindingsAt(ReadableScanned[k], n,
                                              SecurityPatterns[c].issue_type))
                       = Cardinality(MatchingPatterns(
                                         c, LinesOf(ReadableScanned[k])[n]))
        /\ \A k \in 1..Len(outcome.value) :
               /\ outcome.value[k].file \in Elements(ReadableScanned)
               /\ outcome.value[k].line
                      \in 1..Len(LinesOf(outcome.value[k].file))
               /\ \E c \in 1..Len(SecurityPatterns) :
                      outcome.value[k].issue_type = SecurityPatterns[c].issue_type

\* one line with two findings of one category and one of another
C14_Witness ==
    /\ call.op = "analyze_security"
    /\ \E n \in 1..MaxFileSegs :
           /\ Cardinality(FindingsAt(PyPath, n, "Command Injection")) = 2
           /\ Cardinality(FindingsAt(PyPath, n, "Path Traversal")) = 1
           /\ Cardinality(FindingsAt(PyPath, n, "SQL Injection")) = 0

\* the findings of the returned value on line n of file f
FindingsOnLine(f, n) ==
    {k \in 1..Len(outcome.value) :
        outcome.value[k].file = f /\ outcome.value[k].line = n}

\* C15: every finding carries the 1-based number of a line of its file that
\* a pattern of the finding's category matches; a line
\* password = "hunter2" at line n has a finding with line n and issue type
\* 'Hardcoded Credentials', and a line SELECT * FROM users has no finding.
C15_FindingsCarryLineAndCategory ==
    call.op = "analyze_security" =>
        /\ \A k \in 1..Len(outcome.value) :
               LET finding == outcome.value[k]
               IN  /\ finding.line \in 1..Len(LinesOf(finding.file))
                   /\ \E c \in 1..Len(SecurityPatterns) :
                          /\ finding.issue_type = SecurityPatterns[c].issue_type
                          /\ MatchingPatterns(
                                 c, LinesOf(finding.file)[finding.line]) # {}
        /\ \A k \in 1..Len(ReadableScanned) :
               \A n \in 1..Len(LinesOf(ReadableScanned[k])) :
                   LET f == ReadableScanned[k]
                   IN  /\ LinesOf(f)[n] = PasswordLine =>
                              FindingsAt(f, n, "Hardcoded Credentials") # {}
                       /\ LinesOf(f)[n] = SelectLine =>
                              FindingsOnLine(f, n) = {}

\* the password line below the SELECT line: one finding, on the password's
\* line
C15_Witness ==
    /\ call.op = "analyze_security"
    /\ Len(LinesOf(PyPath)) = 3
    /\ LinesOf(PyPath)[2] = SelectLine
    /\ LinesOf(PyPath)[3] = PasswordLine
    /\ Len(outcome.value) = 1
    /\ outcome.value[1].line = 3
    /\ outcome.value[1].issue_type = "Hardcoded Credentials"

\* a line that opens a level: its trimmed text starts with 'if ', 'for ',
\* 'while ', 'def ' or 'class '
IsOpener(l) ==
    \E p \in Elements(NestingKeywords) : StartsWith(Strip(l), p)

\* a line that resets the counter: not an opener, not blank, and not an
\* 'else:' or 'elif ' line
IsReset(l) ==
    /\ ~IsOpener(l)
    /\ Strip(l) # <<>>
    /\ \A p \in Elements(ContinuationKeywords) : ~StartsWith(Strip(l), p)

\* the counter after the first k lines of f: the openers met since the
\* last reset
CounterAfter(f, k) ==
    Cardinality({n \in 1..k :
        /\ IsOpener(LinesOf(f)[n])
        /\ \A m \in (n + 1)..k : ~IsReset(LinesOf(f)[m])})

\* the largest value the counter reaches over the lines of f
LargestCounter(f) ==
    CHOOSE v \in {CounterAfter(f, k) : k \in 0..Len(LinesOf(f))} :
        \A k \in 0..Len(LinesOf(f)) : CounterAfter(f, k) <= v

\* C16: max_nesting is the largest value reached by one counter run over
\* the lines in order, which an opener line increments, which any other
\* non-blank line that is not 'else:' / 'elif ' resets to zero, and which
\* blank lines and 'else:' / 'elif ' lines leave alone (0 without opener).
C16_MaxNestingIsLargestCounter ==
    call.op = "analyze_performance" =>
        \A k \in 1..Len(outcome.value) :
            outcome.value[k].max_nesting = LargestCounter(outcome.value[k].file)

\* two openers with an 'else:' line between them reach 2
C16_Witness ==
    /\ call.op = "analyze_performance"
    /\ LinesOf(PyPath) = <<IfLine, ElseLine, IfLine>>
    /\ Len(outcome.value) = 1
    /\ outcome.value[1].max_nesting = 2

(***************************************************************************)
(* Properties of the choice of the files                                   *)
(***************************************************************************)
AnalyzerOps ==
    {"analyze_complexity", "analyze_performance", "analyze_security",
     "GitWizard.analyze_performance"}

NoPathGiven == call.arg = None \/ call.arg = <<>>

\* C12: without a file path an analyzer opens exactly the tracked files
\* whose path ends with .py, .js, .java, .cpp, .c or .h, in the order of
\* the listing; with a file path it opens exactly that file.
C12_ScansTheCodeFilesOrThePath ==
    call.op \in AnalyzerOps =>
        opened = IF NoPathGiven THEN SelectSeq(repo_files, IsCodeFile)
                 ELSE <<call.arg>>

\* C12 for the analyzers of CodeAnalyzer alone
C12_CodeAnalyzerScans ==
    call.op \in AnalyzerOps \ {"GitWizard.analyze_performance"} =>
        opened = IF NoPathGiven THEN SelectSeq(repo_files, IsCodeFile)
                 ELSE <<call.arg>>

(***************************************************************************)
(* Properties of several calls on one CodeAnalyzer                         *)
(***************************************************************************)
\* no position stands twice in the occurrences of a group
DistinctOccurrences(group) ==
    \A i, j \in 1..Len(group.occurrences) :
        group.occurrences[i] = group.occurrences[j] => i = j

\* C17: the calls share no mutable state: a call already made on the same
\* CodeAnalyzer with the same operation and argument, over the same files
\* and with any other calls between the two, returned the same as the
\* last call; and no group of find_duplicates holds a position twice, as
\* it would with the occurrences of a call made before.
C17_RepeatedCallsAgree ==
    /\ \A r \in earlier : r.call = call => r.outcome = outcome
    /\ call.op = "find_duplicates" =>
           /\ \A k \in 1..Len(outcome.value) :
                  DistinctOccurrences(outcome.value[k])
           /\ \A k \in 1..Len(code_fragments) :
                  DistinctOccurrences(code_fragments[k])

\* find_duplicates called a second time with the same min_length, with a
\* call of another operation made before it as well, and groups returned
C17_Witness ==
    /\ call.op = "find_duplicates"
    /\ outcome.value # <<>>
    /\ Cardinality(earlier) = 2
    /\ \E r \in earlier : r.call = call
    /\ \E r \in earlier : r.call.op = "analyze_security" /\ r.outcome.value # <<>>

(***************************************************************************)
(* Properties of the rows and opcodes of a diff                            *)
(***************************************************************************)
\* the old cells and the new cells of the rows, in order
OldCells == [k \in 1..Len(rows) |-> rows[k].old]

NewCells == [k \in 1..Len(rows) |-> rows[k].new]

AllRows(tag) == \A k \in 1..Len(rows) : rows[k].tag = tag

\* C18: when the old version is empty or absent every row is an Insert
\* row with an empty old side and the new sides are the new lines in
\* order; when the new version is empty or absent every row is a Delete
\* row with an empty new side and the old sides are the old lines.
C18_EmptyVersionRows ==
    Rendered =>
        /\ BlobContent(a_blob) = <<>> =>
               /\ AllRows("insert")
               /\ \A k \in 1..Len(rows) : rows[k].old = <<>>
               /\ NewCells = new_lines
        /\ BlobContent(b_blob) = <<>> =>
               /\ AllRows("delete")
               /\ \A k \in 1..Len(rows) : rows[k].new = <<>>
               /\ OldCells = old_lines

\* C18 for the two renderers that split with splitlines()
C18_SplitlinesRenderers ==
    Rendered /\ renderer # "ConsoleUI.print_diff" =>
        /\ BlobContent(a_blob) = <<>> =>
               /\ AllRows("insert")
               /\ \A k \in 1..Len(rows) : rows[k].old = <<>>
               /\ NewCells = new_lines
        /\ BlobContent(b_blob) = <<>> =>
               /\ AllRows("delete")
               /\ \A k \in 1..Len(rows) : rows[k].new = <<>>
               /\ OldCells = old_lines

OldGap(op) == op.i2 - op.i1

NewGap(op) == op.j2 - op.j1

\* C19: every opcode that is not Equal lies between two matching blocks (or
\* at an end) and is a Replace exactly when its old gap and its new gap
\* are both non-empty, a Delete exactly when only its old gap is, an
\* Insert exactly when only its new gap is; an Equal opcode pairs
\* string-equal lines; no opcode has both ranges empty.
C19_GapsAreClassified ==
    Rendered =>
        \A k \in 1..Len(opcodes) :
            LET op == opcodes[k]
            IN  /\ op.tag \in {"equal", "replace", "delete", "insert"}
                /\ OldGap(op) > 0 \/ NewGap(op) > 0
                /\ op.tag = "equal" =>
                       /\ OldGap(op) = NewGap(op)
                       /\ \A n \in 1..OldGap(op) :
                              old_lines[op.i1 + n] = new_lines[op.j1 + n]
                /\ op.tag # "equal" =>
                       /\ op.tag = "replace" <=> OldGap(op) > 0 /\ NewGap(op) > 0
                       /\ op.tag = "delete" <=> OldGap(op) > 0 /\ NewGap(op) = 0
                       /\ op.tag = "insert" <=> OldGap(op) = 0 /\ NewGap(op) > 0
                       /\ k > 1 => opcodes[k - 1].tag = "equal"
                       /\ k < Len(opcodes) => opcodes[k + 1].tag = "equal"

\* a Replace span, a matching block and an Insert span in one diff
C19_Witness ==
    /\ Rendered
    /\ Len(opcodes) = 3
    /\ opcodes[1].tag = "replace"
    /\ opcodes[2].tag = "equal"
    /\ opcodes[3].tag = "insert"

(***************************************************************************)
(* Properties of the files shorter than the window                         *)
(***************************************************************************)
\* C20: a file whose line count is less than or equal to min_length
\* contributes no fragment to the dict of find_duplicates.
C20_ShortFilesContributeNothing ==
    Scanned =>
        \A k \in 1..Len(ReadableCodeFiles) :
            LineCount(ReadFile(ReadableCodeFiles[k])) <= call.arg =>
                \A g \in 1..Len(code_fragments) :
                    \A n \in 1..Len(code_fragments[g].occurrences) :
                        code_fragments[g].occurrences[n][1] # ReadableCodeFiles[k]

(***************************************************************************)
(* Properties of the settings                                              *)
(***************************************************************************)
\* C21: after Settings.reset() every key holds its built-in default,
\* whatever set() calls came before and whatever the settings file holds.
C21_ResetRestoresDefaults ==
    call.op = "Settings.reset" => settings = DefaultSettings

(***************************************************************************)
(* Properties of the command loops                                         *)
(***************************************************************************)
\* the last turn ended the loop in the two ways the loop may end
EndOfInputOrConfirmedExit ==
    \/ call.arg.raised = "EOFError"
    \/ command = ExitLine /\ call.arg.reply = "yes"

\* C22: in both loops no command line ends the loop with an uncaught
\* error: after any command other than a confirmed 'exit' or the end of
\* input the loop is at the prompt again.
C22_EveryCommandReturnsToThePrompt ==
    /\ at # "crashed"
    /\ call.op = "run" /\ ~EndOfInputOrConfirmedExit => at = "prompt"

(***************************************************************************)
(* Properties of the 'security' command of main.py                         *)
(***************************************************************************)
\* C23: when analyze_security returns at least one finding, the
\* 'security' command of main.py shows every finding exactly once (as
\* many rows as analyze_security returned for it) and reports no error.
C23_SecurityShowsEveryFinding ==
    call.op = "security" /\ ~outcome.raised /\ outcome.value # <<>> =>
        /\ \A k \in 1..Len(ui) : ui[k].kind # "error"
        /\ \A j \in 1..Len(outcome.value) :
               Cardinality({k \in 1..Len(ui) :
                   ui[k] = Ui("finding", outcome.value[j])})
               = Cardinality({i \in 1..Len(outcome.value) :
                   outcome.value[i] = outcome.value[j]})

(***************************************************************************)
(* Properties of the fragments and groups of find_duplicates               *)
(***************************************************************************)
\* C24: find_duplicates records no fragment that is empty or only
\* whitespace after trimming, and returns no group with such a fragment,
\* even when files share runs of blank lines.
C24_NoBlankFragment ==
    Scanned =>
        /\ \A k \in 1..Len(code_fragments) :
               Strip(code_fragments[k].fragment) # <<>>
        /\ \A k \in 1..Len(outcome.value) :
               Strip(outcome.value[k].fragment) # <<>>

\* a blank window of min_length lines stands in two different files, and
\* the call returned a group
C24_Witness ==
    /\ Scanned
    /\ call.arg >= 2
    /\ outcome.value # <<>>
    /\ \E text \in WindowTexts(call.arg) :
           /\ Strip(text) = <<>>
           /\ \E p, q \in Places(text, call.arg) : p[1] # q[1]

\* the position of a file in the list of code files
FileIndex(f) == CHOOSE k \in 1..Len(GetCodeFiles) : GetCodeFiles[k] = f

\* occurrence p is scanned before occurrence q: its file is listed
\* earlier, or it is the same file and its start line is smaller
ScanBefore(p, q) ==
    \/ FileIndex(p[1]) < FileIndex(q[1])
    \/ p[1] = q[1] /\ p[2] < q[2]

\* C25: the groups returned by find_duplicates are in the order of the
\* first occurrence of their fragments in scan order (files in listing
\* order, start lines ascending), the first occurrence being the first
\* entry of the group.
C25_GroupsInFirstOccurrenceOrder ==
    Scanned =>
        /\ \A k \in 1..Len(outcome.value) :
               \A n \in 2..Len(outcome.value[k].occurrences) :
                   ScanBefore(outcome.value[k].occurrences[1],
                              outcome.value[k].occurrences[n])
        /\ \A j, k \in 1..Len(outcome.value) :
               j < k => ScanBefore(outcome.value[j].occurrences[1],
                                   outcome.value[k].occurrences[1])

\* two groups, the later one complete (its second occurrence found)
\* before the earlier one
C25_Witness ==
    /\ Scanned
    /\ Len(outcome.value) = 2
    /\ ScanBefore(outcome.value[2].occurrences[2],
                  outcome.value[1].occurrences[2])

\* occurrence occ is in the list of group g
HasOccurrence(g, occ) ==
    \E n \in 1..Len(g.occurrences) : g.occurrences[n] = occ

\* C30: find_duplicates filters no overlapping windows: when the windows
\* of min_length >= 1 lines at two consecutive start lines of one file
\* hold the same non-blank text, one group lists both start lines; and no
\* list of occurrences holds the same (file, start line) pair twice.
C30_OverlappingWindowsAreKept ==
    Scanned =>
        /\ call.arg >= 1 =>
               \A f \in 1..Len(ReadableCodeFiles) :
                   \A i \in WindowStarts(ReadableCodeFiles[f], call.arg) :
                       /\ i + 1 \in WindowStarts(ReadableCodeFiles[f], call.arg)
                       /\ WindowText(ReadableCodeFiles[f], call.arg, i)
                              = WindowText(ReadableCodeFiles[f], call.arg, i + 1)
                       /\ Strip(WindowText(ReadableCodeFiles[f], call.arg, i)) # <<>>
                       => \E g \in 1..Len(outcome.value) :
                              /\ HasOccurrence(outcome.value[g],
                                               <<ReadableCodeFiles[f], i + 1>>)
                              /\ HasOccurrence(outcome.value[g],
                                               <<ReadableCodeFiles[f], i + 2>>)
        /\ \A g \in 1..Len(code_fragments) :
               \A m, n \in 1..Len(code_fragments[g].occurrences) :
                   m # n => code_fragments[g].occurrences[m]
                                # code_fragments[g].occurrences[n]

\* a file of min_length + 1 identical non-blank lines and nothing else
\* repeated: the group has exactly the occurrences (file, 1), (file, 2)
C30_Witness ==
    /\ Scanned
    /\ call.arg = 2
    /\ Len(outcome.value) = 1
    /\ outcome.value[1].occurrences = <<<<PyPath, 1>>, <<PyPath, 2>>>>

(***************************************************************************)
(* Properties of the choice among equally long matching blocks             *)
(***************************************************************************)
\* old_lines[i..i+k) and new_lines[j..j+k) (0-based) are the same k lines
CommonBlock(i, j, k) ==
    /\ k >= 1
    /\ i + k <= Len(old_lines)
    /\ j + k <= Len(new_lines)
    /\ \A n \in 1..k : old_lines[i + n] = new_lines[j + n]

BlockStarts == (0..Len(old_lines)) \X (0..Len(new_lines))

\* the length of the longest common block, 0 when no line is shared
LongestLength ==
    IF \E p \in BlockStarts : CommonBlock(p[1], p[2], 1)
    THEN CHOOSE k \in 1..Len(old_lines) :
             /\ \E p \in BlockStarts : CommonBlock(p[1], p[2], k)
             /\ \A p \in BlockStarts : ~CommonBlock(p[1], p[2], k + 1)
    ELSE 0

\* the starts of the common blocks of length len
StartsOfLength(len) == {p \in BlockStarts : CommonBlock(p[1], p[2], len)}

\* of the starts S, the one earliest in the old lines and then in the new
\* lines
Earliest(S) ==
    CHOOSE p \in S :
        \A q \in S \ {p} : p[1] < q[1] \/ (p[1] = q[1] /\ p[2] < q[2])

ShowDiffReturned == call.op = "Visualizer.show_diff"

\* C27: Visualizer.show_diff never raises and returns a string: the
\* empty string when there are no diffs, an error message when fetching
\* the diff or reading a blob fails, and a table built over the empty
\* line sequence for a blob that is missing.
C27_ShowDiffAlwaysReturnsAString ==
    ShowDiffReturned =>
        /\ ~outcome.raised
        /\ outcome.value.type = "str"
        /\ call.arg.fetched = "no diffs" => outcome.value = EmptyStr
        /\ call.arg.fetched = "raises" \/ call.arg.read = "raises"
               <=> outcome.value.error
        /\ Rendered /\ a_blob = None => old_lines = <<>>
        /\ Rendered /\ b_blob = None => new_lines = <<>>
        /\ Rendered => rows = TableRows(GetOpcodes(old_lines, new_lines),
                                        old_lines, new_lines)

\* a failure while the blobs of a diff are read, reported as a message
C27_Witness ==
    /\ ShowDiffReturned
    /\ call.arg.read = "raises"
    /\ a_blob = None
    /\ outcome.value.error

\* a diff whose old blob is missing and whose new blob holds an
\* undecodable byte, rendered
C27_MissingBlobRendered ==
    /\ ShowDiffReturned
    /\ Rendered
    /\ a_blob = None
    /\ b_blob # None
    /\ \E k \in 1..Len(b_blob) : b_blob[k] = BadByte
    /\ rows # <<>>

(***************************************************************************)
(* Properties of Theme                                                     *)
(***************************************************************************)
AvailableThemes == {"light", "dark", "monokai", "solarized"}

\* the colours of a theme
ColoursOf(theme_name) ==
    {Themes[theme_name][c] : c \in DOMAIN Themes[theme_name]}

\* what get_color has just returned is a colour of the current theme: the
\* colour of that type, or the foreground for a type the theme lacks
ColourIsOfCurrentTheme ==
    call.op = "Theme.get_color" =>
        /\ outcome.value \in ColoursOf(current_theme)
        /\ outcome.value =
               IF call.arg \in DOMAIN Themes[current_theme]
               THEN Themes[current_theme][call.arg]
               ELSE Themes[current_theme]["foreground"]

\* a step of set_theme: a known name returns True and becomes current, an
\* unknown name returns False and leaves current_theme as it was
SetThemeStep ==
    calls_left' # calls_left /\ call'.op = "Theme.set_theme" =>
        IF call'.arg \in AvailableThemes
        THEN outcome'.value = TRUE /\ current_theme' = call'.arg
        ELSE outcome'.value = FALSE /\ current_theme' = current_theme

\* C28: after any sequence of set_theme calls current_theme is one of
\* light, dark, monokai, solarized; set_theme returns False and changes
\* nothing for an unknown name, returns True and makes a known name
\* current; get_color returns a colour of the current theme, its
\* foreground for an unknown colour type.
C28_ThemeStaysAvailable ==
    /\ [](current_theme \in AvailableThemes /\ ColourIsOfCurrentTheme)
    /\ [][SetThemeStep]_vars

\* an unknown name was refused after a known one had been set, and the
\* theme set first is still current
C28_Witness ==
    /\ call = [op |-> "Theme.set_theme", arg |-> "neon"]
    /\ outcome.value = FALSE
    /\ current_theme = "monokai"

\* an unknown colour type answered with the foreground of a theme that
\* is not the default one
C28_FallbackColour ==
    /\ call = [op |-> "Theme.get_color", arg |-> "cyan"]
    /\ current_theme = "solarized"
    /\ outcome.value = "#93a1a1"

(***************************************************************************)
(* Properties of the command loop of main.py                               *)
(***************************************************************************)
\* a turn of the loop of main.py has ended
MainTurn == program = "main.py" /\ call.op = "run"

\* how often the farewell is among the lines the turn printed
Goodbyes == Cardinality({k \in 1..Len(ui) : ui[k] = Goodbye})

\* C29: the loop of main.py ends only on end of input or on an 'exit'
\* whose confirmation is answered yes; a declined 'exit' and an empty
\* command return to the prompt with nothing dispatched, a keyboard
\* interrupt and a failing command return to the prompt; the farewell is
\* printed once, as the last line, when the loop ends and not before.
C29_MainLoopEndsOnlyOnExitOrEndOfInput ==
    MainTurn =>
        /\ at \in {"prompt", "ended"}
        /\ at = "ended" <=> EndOfInputOrConfirmedExit
        /\ (command = ExitLine /\ call.arg.reply = "no") \/ command.cmd = ""
               => at = "prompt" /\ outcome.value = "none"
        /\ call.arg.raised \in {"KeyboardInterrupt", "Exception"}
               => at = "prompt"
        /\ at = "ended" => Goodbyes = 1 /\ ui[Len(ui)] = Goodbye
        /\ at = "prompt" => Goodbyes = 0

\* 'exit' confirmed after two earlier turns that returned to the prompt
C29_Witness ==
    /\ MainTurn
    /\ at = "ended"
    /\ command = ExitLine
    /\ call.arg.reply = "yes"
    /\ calls_left = MaxLoopSteps - 3

\* a keyboard interrupt inside a handler, answered at the prompt
C29_InterruptReturnsToPrompt ==
    /\ MainTurn
    /\ call.arg.raised = "KeyboardInterrupt"
    /\ outcome.value # "none"
    /\ at = "prompt"

====
